---- MODULE Spec2Model ----
(***************************************************************************)
(* A model of the 2D mirror-optics engine of shelbywilson/reflections:     *)
(* src/src/util/optics-helpers.ts (geometry, reflection, grouping),        *)
(* src/unnamed/part_001 (the render helpers: isImageVisible, drawLightRay, *)
(* drawVirtualImages) and src/src/contexts/OpticsContext.tsx (the scene).  *)
(*                                                                         *)
(* Numbers.  The code computes in IEEE doubles; the model computes in      *)
(* exact rational arithmetic.  A number is a pair <<n, d>> in lowest terms *)
(* with d > 0, so that equal numbers are equal values.                     *)
(*                                                                         *)
(* Angles.  mirror.rotation and object.direction are integer degrees.      *)
(* Math.cos / Math.sin of a rotation are given by TrigTable.  Multiples of *)
(* 90 degrees have their exact values.  An oblique entry is the nearest    *)
(* angle whose cosine and sine are both rational (a Pythagorean triple),   *)
(* so that every normal of the model has length exactly 1, as it has in    *)
(* exact arithmetic: 37 and 53 stand for atan(3/4) and atan(4/3), 2, 4 and *)
(* 6 for 2.010, 4.019 and 6.026 degrees.  The parallelism tolerance of     *)
(* areParallel (|cos| > 0.999, i.e. under 2.56 degrees) decides every pair *)
(* of table angles as it decides the nominal integer angles.               *)
(***************************************************************************)
EXTENDS Integers, Sequences, FiniteSets, TLC

VARIABLES mirrors, objects, observers, op, args, result

vars == <<mirrors, objects, observers, op, args, result>>

-----------------------------------------------------------------------------
(* Exact rational arithmetic (the model's "number").                       *)

Abs(n) == IF n < 0 THEN -n ELSE n

RECURSIVE Gcd(_, _)
Gcd(a, b) == IF b = 0 THEN Abs(a) ELSE Gcd(b, a % Abs(b))

Rat(n, d) ==
  LET g == Gcd(n, d)
      s == IF d < 0 THEN -1 ELSE 1
  IN  <<(s * n) \div g, (s * d) \div g>>

I(n) == <<n, 1>>

Lcm(a, b) == (a \div Gcd(a, b)) * b

RAdd(x, y) ==
  LET l == Lcm(x[2], y[2])
  IN  Rat(x[1] * (l \div x[2]) + y[1] * (l \div y[2]), l)

RNeg(x) == <<-x[1], x[2]>>

RSub(x, y) == RAdd(x, RNeg(y))

RMul(x, y) ==
  LET g1 == Gcd(x[1], y[2])
      g2 == Gcd(y[1], x[2])
  IN  IF x[1] = 0 \/ y[1] = 0 THEN <<0, 1>>
      ELSE Rat((x[1] \div g1) * (y[1] \div g2), (x[2] \div g2) * (y[2] \div g1))

RInv(x) == Rat(x[2], x[1])

RDiv(x, y) == RMul(x, RInv(y))

RLt(x, y) == RSub(x, y)[1] < 0

RLe(x, y) == RSub(x, y)[1] <= 0

RAbs(x) == <<Abs(x[1]), x[2]>>

RFloor(x) == x[1] \div x[2]

RECURSIVE ISqrtFrom(_, _)
ISqrtFrom(n, k) == IF (k + 1) * (k + 1) > n THEN k ELSE ISqrtFrom(n, k + 1)

\* Math.sqrt, exact on the squares of rationals (the only arguments the model
\* gives it: a reflection preserves the rational length of a mirror).
RSqrt(x) == <<ISqrtFrom(x[1], 0), ISqrtFrom(x[2], 0)>>

\* Math.round: the nearest integer, halves rounded towards +infinity.
MathRound(x) == RFloor(RAdd(x, <<1, 2>>))

\* The JavaScript remainder a % b for integers: the sign of the dividend.
JsRem(a, b) == IF a < 0 THEN -((-a) % b) ELSE a % b

Zero == I(0)
One == I(1)
Two == I(2)

-----------------------------------------------------------------------------
(* Math.cos, Math.sin and Math.atan2 in degrees.                           *)

NormDeg(r) == ((r % 360) + 360) % 360

TrigTable ==
  [d \in {0, 2, 4, 6, 37, 53, 90, 127, 143, 180, 217, 233, 270, 307, 323} |->
     CASE d = 0   -> <<<<1, 1>>, <<0, 1>>>>
       [] d = 2   -> <<<<1624, 1625>>, <<57, 1625>>>>
       [] d = 4   -> <<<<3245, 3253>>, <<228, 3253>>>>
       [] d = 6   -> <<<<180, 181>>, <<19, 181>>>>
       [] d = 37  -> <<<<4, 5>>, <<3, 5>>>>
       [] d = 53  -> <<<<3, 5>>, <<4, 5>>>>
       [] d = 90  -> <<<<0, 1>>, <<1, 1>>>>
       [] d = 127 -> <<<<-3, 5>>, <<4, 5>>>>
       [] d = 143 -> <<<<-4, 5>>, <<3, 5>>>>
       [] d = 180 -> <<<<-1, 1>>, <<0, 1>>>>
       [] d = 217 -> <<<<-4, 5>>, <<-3, 5>>>>
       [] d = 233 -> <<<<-3, 5>>, <<-4, 5>>>>
       [] d = 270 -> <<<<0, 1>>, <<-1, 1>>>>
       [] d = 307 -> <<<<3, 5>>, <<-4, 5>>>>
       [] d = 323 -> <<<<4, 5>>, <<-3, 5>>>>]

KnownDeg == DOMAIN TrigTable

Cos(r) == TrigTable[NormDeg(r)][1]
Sin(r) == TrigTable[NormDeg(r)][2]

\* Math.atan2(a, b) * 180 / Math.PI for a vector (b, a) of rational length
\* len > 0: the angle in (-180, 180] whose cosine is b/len and sine a/len.
Atan2Deg(a, b, len) ==
  LET d == CHOOSE k \in KnownDeg :
             TrigTable[k] = <<RDiv(b, len), RDiv(a, len)>>
  IN  IF d > 180 THEN d - 360 ELSE d

-----------------------------------------------------------------------------
(* Values of src/src/util/types.ts.                                        *)

Pt(x, y) == [x |-> x, y |-> y]

\* A point with integer coordinates.
IPt(x, y) == Pt(I(x), I(y))

\* A real mirror.  id stands for the identity of the JavaScript object: the
\* code compares mirrors with === and Array.includes, never by their fields.
Mirror(id, position, height, rotation) ==
  [id |-> id, position |-> position, width |-> I(6), height |-> height,
   rotation |-> rotation]

\* null / undefined where a mirror reference is expected.
NoMirror == [id |-> 0]

SameRef(a, b) == a.id = b.id

Object(position, direction) ==
  [position |-> position, size |-> 30, direction |-> direction]

Observer(position) == [position |-> position, size |-> 40]

\* null as a function result.
Null == [null |-> TRUE]

-----------------------------------------------------------------------------
(* optics-helpers.ts: vectors and mirror geometry.                         *)

getMirrorEndpoints(mirror) ==
  LET halfHeight == RDiv(mirror.height, Two)
      start == Pt(RAdd(mirror.position.x, RMul(Sin(mirror.rotation), halfHeight)),
                  RSub(mirror.position.y, RMul(Cos(mirror.rotation), halfHeight)))
      end   == Pt(RSub(mirror.position.x, RMul(Sin(mirror.rotation), halfHeight)),
                  RAdd(mirror.position.y, RMul(Cos(mirror.rotation), halfHeight)))
  IN  <<start, end>>

getMirrorNormal(mirror) == Pt(Cos(mirror.rotation), Sin(mirror.rotation))

dotProduct(v1, v2) == RAdd(RMul(v1.x, v2.x), RMul(v1.y, v2.y))

subtractVectors(v1, v2) == Pt(RSub(v1.x, v2.x), RSub(v1.y, v2.y))

\* The parallel-lines threshold of lineIntersection.
DenomEpsilon == Rat(1, 10000)

\* lineIntersection without the range check of ub: the crossing is accepted
\* when it lies on the first segment only.
lineIntersectionNoUb(p1, p2, p3, p4) ==
  LET denom == RSub(RMul(RSub(p4.y, p3.y), RSub(p2.x, p1.x)),
                    RMul(RSub(p4.x, p3.x), RSub(p2.y, p1.y)))
      ua == RDiv(RSub(RMul(RSub(p4.x, p3.x), RSub(p1.y, p3.y)),
                      RMul(RSub(p4.y, p3.y), RSub(p1.x, p3.x))), denom)
  IN  IF RLt(RAbs(denom), DenomEpsilon) THEN Null
      ELSE IF RLt(ua, Zero) \/ RLt(One, ua) THEN Null
      ELSE Pt(RAdd(p1.x, RMul(ua, RSub(p2.x, p1.x))),
              RAdd(p1.y, RMul(ua, RSub(p2.y, p1.y))))

lineIntersection(p1, p2, p3, p4) ==
  LET denom == RSub(RMul(RSub(p4.y, p3.y), RSub(p2.x, p1.x)),
                    RMul(RSub(p4.x, p3.x), RSub(p2.y, p1.y)))
      ua == RDiv(RSub(RMul(RSub(p4.x, p3.x), RSub(p1.y, p3.y)),
                      RMul(RSub(p4.y, p3.y), RSub(p1.x, p3.x))), denom)
      ub == RDiv(RSub(RMul(RSub(p2.x, p1.x), RSub(p1.y, p3.y)),
                      RMul(RSub(p2.y, p1.y), RSub(p1.x, p3.x))), denom)
  IN  IF RLt(RAbs(denom), DenomEpsilon) THEN Null
      ELSE IF RLt(ua, Zero) \/ RLt(One, ua) \/ RLt(ub, Zero) \/ RLt(One, ub)
           THEN Null
      ELSE Pt(RAdd(p1.x, RMul(ua, RSub(p2.x, p1.x))),
              RAdd(p1.y, RMul(ua, RSub(p2.y, p1.y))))

\* The loop of isDirectlyVisible from mirror k on: false at the first mirror
\* whose segment the sight line from-to intersects.
RECURSIVE isDirectlyVisibleFrom(_, _, _, _)
isDirectlyVisibleFrom(from, to, ms, k) ==
  IF k > Len(ms) THEN TRUE
  ELSE LET ends == getMirrorEndpoints(ms[k])
       IN  IF lineIntersection(from, to, ends[1], ends[2]) # Null THEN FALSE
           ELSE isDirectlyVisibleFrom(from, to, ms, k + 1)

\* isDirectlyVisible returning true from inside the loop: only the first
\* mirror is looked at.
isDirectlyVisibleFirstOnly(from, to, ms) ==
  IF Len(ms) = 0 THEN TRUE
  ELSE LET ends == getMirrorEndpoints(ms[1])
       IN  lineIntersection(from, to, ends[1], ends[2]) = Null

isDirectlyVisible(from, to, ms) == isDirectlyVisibleFrom(from, to, ms, 1)

\* The reflected direction of calculateVirtualImagePosition.
reflectedDirection(object, mirror) ==
  LET normalizedMirrorAngle == JsRem(JsRem(mirror.rotation, 360) + 360, 360)
  IN  JsRem(2 * normalizedMirrorAngle - object.direction + 180, 360)

\* calculateVirtualImagePosition dropping the object on the mirror's plane
\* (dist taken once, not twice).
calculateVirtualImagePositionOnce(object, mirror) ==
  LET normal == getMirrorNormal(mirror)
      dist == dotProduct(subtractVectors(object.position, mirror.position), normal)
  IN  [position |-> Pt(RSub(object.position.x, RMul(dist, normal.x)),
                       RSub(object.position.y, RMul(dist, normal.y))),
       direction |-> reflectedDirection(object, mirror),
       size |-> object.size, order |-> 1, sourceMirror |-> mirror]

\* calculateVirtualImagePosition measuring dist from the origin instead of
\* from mirror.position.
calculateVirtualImagePositionOrigin(object, mirror) ==
  LET normal == getMirrorNormal(mirror)
      dist == dotProduct(object.position, normal)
  IN  [position |-> Pt(RSub(object.position.x, RMul(RMul(Two, dist), normal.x)),
                       RSub(object.position.y, RMul(RMul(Two, dist), normal.y))),
       direction |-> reflectedDirection(object, mirror),
       size |-> object.size, order |-> 1, sourceMirror |-> mirror]

calculateVirtualImagePosition(object, mirror) ==
  LET normal == getMirrorNormal(mirror)
      mirrorToObj == subtractVectors(object.position, mirror.position)
      dist == dotProduct(mirrorToObj, normal)
      position == Pt(RSub(object.position.x, RMul(RMul(Two, dist), normal.x)),
                     RSub(object.position.y, RMul(RMul(Two, dist), normal.y)))
  IN  [position |-> position,
       direction |-> reflectedDirection(object, mirror),
       size |-> object.size, order |-> 1, sourceMirror |-> mirror]

\* The key without the depth: the rounded position alone.
imageKeyNoDepth(position, reflection) ==
  <<MathRound(position.x), MathRound(position.y)>>

\* The key of imageMap: the rounded position and the depth.
imageKey(position, reflection) ==
  <<MathRound(position.x), MathRound(position.y), reflection>>

\* The accumulated state (results, newVirtualObjects, imageMap) with the
\* image virtual of vObj in mirror accepted unless its key is in imageMap.
addImage(acc, vObj, mirror, reflection, virtual) ==
  LET key == imageKey(virtual.position, reflection)
  IN  IF key \in acc.imageMap THEN acc
      ELSE [results |-> Append(acc.results,
                          [virtual EXCEPT !.order = reflection,
                                          !.sourceMirror = mirror]),
            newVirtualObjects |-> Append(acc.newVirtualObjects,
                          [position |-> virtual.position,
                           direction |-> virtual.direction,
                           size |-> virtual.size,
                           sourceObject |-> vObj.sourceObject,
                           sourceMirror |-> mirror,
                           reflectionOrder |-> reflection]),
            imageMap |-> acc.imageMap \cup {key}]

\* acceptImage reflecting the real object at every depth, not the virtual
\* object.
acceptImageOfObject(acc, vObj, mirror, reflection) ==
  addImage(acc, vObj, mirror, reflection,
           calculateVirtualImagePosition(vObj.sourceObject, mirror))

\* The image of virtual object vObj in mirror, offered to the accumulated
\* state.
acceptImage(acc, vObj, mirror, reflection) ==
  addImage(acc, vObj, mirror, reflection,
           calculateVirtualImagePosition(
             [vObj.sourceObject EXCEPT !.position = vObj.position,
                                       !.direction = vObj.direction],
             mirror))

\* The body of the inner forEach without the check that skips the mirror
\* that created the virtual object.
imageStepNoSkip(acc, vObj, mirror, reflection) ==
  acceptImage(acc, vObj, mirror, reflection)

\* The body of the inner forEach of calculateParallelMirrorImages.
imageStep(acc, vObj, mirror, reflection) ==
  IF SameRef(mirror, vObj.sourceMirror) THEN acc
  ELSE acceptImage(acc, vObj, mirror, reflection)

\* The two nested forEach loops of one depth, from the k-th (virtual object,
\* mirror) pair on: virtual objects outside, mirrors inside.
RECURSIVE expandDepth(_, _, _, _, _)
expandDepth(acc, virtualObjects, ms, reflection, k) ==
  IF k > Len(virtualObjects) * Len(ms) THEN acc
  ELSE expandDepth(
         imageStep(acc, virtualObjects[((k - 1) \div Len(ms)) + 1],
                   ms[((k - 1) % Len(ms)) + 1], reflection),
         virtualObjects, ms, reflection, k + 1)

\* The for loop over reflection = 1..maxReflections.
RECURSIVE reflectionLoop(_, _, _, _, _, _)
RECURSIVE nextDepth(_, _, _, _)
reflectionLoop(results, imageMap, virtualObjects, ms, reflection, maxReflections) ==
  IF reflection > maxReflections THEN results
  ELSE nextDepth(expandDepth([results |-> results, newVirtualObjects |-> <<>>,
                              imageMap |-> imageMap],
                             virtualObjects, ms, reflection, 1),
                 ms, reflection, maxReflections)

\* The end of one pass of the for loop: virtualObjects = newVirtualObjects.
nextDepth(acc, ms, reflection, maxReflections) ==
  reflectionLoop(acc.results, acc.imageMap, acc.newVirtualObjects, ms,
                 reflection + 1, maxReflections)

\* The final results.map(...) of calculateParallelMirrorImages.
mapResults(results, object) ==
  [k \in 1 .. Len(results) |->
     [position |-> results[k].position,
      direction |-> results[k].direction,
      size |-> object.size,
      order |-> results[k].order,
      sourceMirror |-> results[k].sourceMirror]]

\* calculateParallelMirrorImages without its guard on mirrors.length.
calculateParallelMirrorImagesNoGuard(object, ms, maxReflections) ==
  mapResults(reflectionLoop(<<>>, {},
                            <<[position |-> object.position,
                               direction |-> object.direction,
                               size |-> object.size,
                               sourceObject |-> object,
                               sourceMirror |-> NoMirror,
                               reflectionOrder |-> 0]>>,
                            ms, 1, maxReflections),
             object)

calculateParallelMirrorImages(object, ms, maxReflections) ==
  IF Len(ms) < 2 THEN <<>>
  ELSE mapResults(reflectionLoop(<<>>, {},
                                 <<[position |-> object.position,
                                    direction |-> object.direction,
                                    size |-> object.size,
                                    sourceObject |-> object,
                                    sourceMirror |-> NoMirror,
                                    reflectionOrder |-> 0]>>,
                                 ms, 1, maxReflections),
                  object)

\* The tolerance of areParallel.
ParallelEpsilon == Rat(1, 1000)

\* areParallel without Math.abs: opposite-facing normals are not parallel.
areParallelSameFacing(mirror1, mirror2) ==
  LET normal1 == getMirrorNormal(mirror1)
      normal2 == getMirrorNormal(mirror2)
  IN  RLt(RSub(One, ParallelEpsilon),
          RAdd(RMul(normal1.x, normal2.x), RMul(normal1.y, normal2.y)))

areParallel(mirror1, mirror2) ==
  LET normal1 == getMirrorNormal(mirror1)
      normal2 == getMirrorNormal(mirror2)
  IN  RLt(RSub(One, ParallelEpsilon),
          RAbs(RAdd(RMul(normal1.x, normal2.x), RMul(normal1.y, normal2.y))))

\* Array.prototype.includes on an array of mirrors: identity of the object.
includes(group, mirror) == \E k \in 1 .. Len(group) : SameRef(group[k], mirror)

\* The pairs (i, j), i < j, of findParallelMirrorGroups in the order of its two
\* nested loops (indices from 1).
RECURSIVE PairsFrom(_, _, _)
PairsFrom(i, j, n) ==
  IF i >= n THEN <<>>
  ELSE IF j > n THEN PairsFrom(i + 1, i + 2, n)
  ELSE <<(<<i, j>>)>> \o PairsFrom(i, j + 1, n)

Pairs(n) == PairsFrom(1, 2, n)

\* The index of the first group that contains mi or mj, 0 when there is none.
RECURSIVE FirstGroupWith(_, _, _, _)
FirstGroupWith(groups, mi, mj, g) ==
  IF g > Len(groups) THEN 0
  ELSE IF includes(groups[g], mi) \/ includes(groups[g], mj) THEN g
  ELSE FirstGroupWith(groups, mi, mj, g + 1)

\* The body of the inner loop taking the last group that contains either
\* mirror, not the first.
GroupPairLast(groups, mi, mj) ==
  IF ~areParallel(mi, mj) THEN groups
  ELSE IF FirstGroupWith(groups, mi, mj, 1) = 0 THEN Append(groups, <<mi, mj>>)
  ELSE LET g == CHOOSE a \in 1 .. Len(groups) :
                  /\ includes(groups[a], mi) \/ includes(groups[a], mj)
                  /\ \A b \in (a + 1) .. Len(groups) :
                       ~(includes(groups[b], mi) \/ includes(groups[b], mj))
           withI == IF includes(groups[g], mi) THEN groups[g]
                    ELSE Append(groups[g], mi)
           withJ == IF includes(withI, mj) THEN withI ELSE Append(withI, mj)
       IN  [groups EXCEPT ![g] = withJ]

\* The body of the inner loop forgetting to add mirrors[j] to the group found.
GroupPairOnlyI(groups, mi, mj) ==
  IF ~areParallel(mi, mj) THEN groups
  ELSE LET g == FirstGroupWith(groups, mi, mj, 1)
       IN  IF g = 0 THEN Append(groups, <<mi, mj>>)
           ELSE [groups EXCEPT ![g] = IF includes(groups[g], mi) THEN groups[g]
                                      ELSE Append(groups[g], mi)]

\* The body of the inner loop of findParallelMirrorGroups for one pair.
GroupPair(groups, mi, mj) ==
  IF ~areParallel(mi, mj) THEN groups
  ELSE LET g == FirstGroupWith(groups, mi, mj, 1)
       IN  IF g = 0 THEN Append(groups, <<mi, mj>>)
           ELSE LET withI == IF includes(groups[g], mi) THEN groups[g]
                             ELSE Append(groups[g], mi)
                    withJ == IF includes(withI, mj) THEN withI
                             ELSE Append(withI, mj)
                IN  [groups EXCEPT ![g] = withJ]

\* The groups after the first k pairs of the pass.
RECURSIVE GroupsAfter(_, _)
GroupsAfter(ms, k) ==
  IF k = 0 THEN <<>>
  ELSE LET pr == Pairs(Len(ms))[k]
       IN  GroupPair(GroupsAfter(ms, k - 1), ms[pr[1]], ms[pr[2]])

findParallelMirrorGroups(ms) == GroupsAfter(ms, Len(Pairs(Len(ms))))

\* The reflection of point p across the plane of reflectingMirror, as
\* calculateVirtualMirror computes it for each endpoint.
reflectEndpoint(p, reflectingMirror) ==
  LET normal == getMirrorNormal(reflectingMirror)
      dist == dotProduct(subtractVectors(p, reflectingMirror.position), normal)
  IN  Pt(RSub(p.x, RMul(RMul(Two, dist), normal.x)),
         RSub(p.y, RMul(RMul(Two, dist), normal.y)))

\* virtualMirrorBetween taking the rotation from atan2(dy, dx), the angle of
\* the segment itself.
virtualMirrorBetweenSegmentAngle(sourceMirror, reflectingMirror, virtualStart, virtualEnd) ==
  LET dx == RSub(virtualEnd.x, virtualStart.x)
      dy == RSub(virtualEnd.y, virtualStart.y)
      virtualHeight == RSqrt(RAdd(RMul(dx, dx), RMul(dy, dy)))
  IN  [position |-> Pt(RDiv(RAdd(virtualStart.x, virtualEnd.x), Two),
                       RDiv(RAdd(virtualStart.y, virtualEnd.y), Two)),
       width |-> sourceMirror.width,
       height |-> virtualHeight,
       rotation |-> Atan2Deg(dy, dx, virtualHeight),
       sourceMirror |-> reflectingMirror,
       isVirtual |-> TRUE,
       order |-> 1]

\* The virtual mirror spanned by the reflected endpoints: the second half
\* of calculateVirtualMirror.
virtualMirrorBetween(sourceMirror, reflectingMirror, virtualStart, virtualEnd) ==
  LET virtualCenter == Pt(RDiv(RAdd(virtualStart.x, virtualEnd.x), Two),
                          RDiv(RAdd(virtualStart.y, virtualEnd.y), Two))
      dx == RSub(virtualEnd.x, virtualStart.x)
      dy == RSub(virtualEnd.y, virtualStart.y)
      virtualHeight == RSqrt(RAdd(RMul(dx, dx), RMul(dy, dy)))
      virtualRotation == Atan2Deg(dx, RNeg(dy), virtualHeight)
  IN  [position |-> virtualCenter,
       width |-> sourceMirror.width,
       height |-> virtualHeight,
       rotation |-> virtualRotation,
       sourceMirror |-> reflectingMirror,
       isVirtual |-> TRUE,
       order |-> 1]

\* calculateVirtualMirror numbering the first reflection 0 instead of 1.
calculateVirtualMirrorOrderZero(sourceMirror, reflectingMirror) ==
  LET ends == getMirrorEndpoints(sourceMirror)
  IN  [virtualMirrorBetween(sourceMirror, reflectingMirror,
                            reflectEndpoint(ends[1], reflectingMirror),
                            reflectEndpoint(ends[2], reflectingMirror))
         EXCEPT !.order = 0]

\* The returned object is a new one: it has no identity any code compares.
calculateVirtualMirror(sourceMirror, reflectingMirror) ==
  LET ends == getMirrorEndpoints(sourceMirror)
  IN  virtualMirrorBetween(sourceMirror, reflectingMirror,
                           reflectEndpoint(ends[1], reflectingMirror),
                           reflectEndpoint(ends[2], reflectingMirror))

\* The first loop nest of calculateVirtualMirrors from its k-th (i, j) pair
\* on (k from 0): mirrors[i] reflected in mirrors[j] for i # j.
RECURSIVE firstOrderFrom(_, _)
firstOrderFrom(ms, k) ==
  IF k >= Len(ms) * Len(ms) THEN <<>>
  ELSE LET i == (k \div Len(ms)) + 1
           j == (k % Len(ms)) + 1
       IN  IF i # j
           THEN <<[calculateVirtualMirror(ms[i], ms[j])
                     EXCEPT !.isVirtual = TRUE, !.order = 1]>>
                  \o firstOrderFrom(ms, k + 1)
           ELSE firstOrderFrom(ms, k + 1)

\* The body of the second loop nest without the check on the creator.
secondOrderStepNoCheck(v, m) ==
  <<[calculateVirtualMirror(v, m) EXCEPT !.isVirtual = TRUE, !.order = 2]>>

\* The body of the second loop nest: first-order mirror v reflected in the
\* real mirror m unless m created v.
secondOrderStep(v, m) ==
  IF ~SameRef(v.sourceMirror, m)
  THEN <<[calculateVirtualMirror(v, m) EXCEPT !.isVirtual = TRUE, !.order = 2]>>
  ELSE <<>>

RECURSIVE secondOrderFrom(_, _, _)
secondOrderFrom(firstOrderVirtualMirrors, ms, k) ==
  IF k >= Len(firstOrderVirtualMirrors) * Len(ms) THEN <<>>
  ELSE secondOrderStep(firstOrderVirtualMirrors[(k \div Len(ms)) + 1],
                       ms[(k % Len(ms)) + 1])
         \o secondOrderFrom(firstOrderVirtualMirrors, ms, k + 1)

calculateVirtualMirrors(ms) ==
  IF Len(ms) <= 1 THEN <<>>
  ELSE LET firstOrderVirtualMirrors == firstOrderFrom(ms, 0)
       IN  firstOrderVirtualMirrors
             \o secondOrderFrom(firstOrderVirtualMirrors, ms, 0)

-----------------------------------------------------------------------------
(* The render helpers (src/unnamed/part_001).                              *)

\* Array.prototype.filter keeping the mirrors that are not the object mirror.
RECURSIVE otherMirrors(_, _)
otherMirrors(ms, mirror) ==
  IF ms = <<>> THEN <<>>
  ELSE IF SameRef(ms[1], mirror) THEN otherMirrors(Tail(ms), mirror)
  ELSE <<ms[1]>> \o otherMirrors(Tail(ms), mirror)

\* The filter comparing the fields of the mirrors instead of the objects.
RECURSIVE otherMirrorsByFields(_, _)
otherMirrorsByFields(ms, mirror) ==
  IF ms = <<>> THEN <<>>
  ELSE IF /\ ms[1].position = mirror.position
          /\ ms[1].rotation = mirror.rotation
          /\ ms[1].height = mirror.height
       THEN otherMirrorsByFields(Tail(ms), mirror)
  ELSE <<ms[1]>> \o otherMirrorsByFields(Tail(ms), mirror)

\* The body of the loop of isImageVisible for one observer: TRUE when the
\* loop returns true at this observer.
observerSees(observer, virtualPos, mirror, others) ==
  LET mirrorNormal == getMirrorNormal(mirror)
      mirrorToObserver == subtractVectors(observer.position, mirror.position)
      mirrorToVirtual == subtractVectors(virtualPos, mirror.position)
      observerSide == dotProduct(mirrorToObserver, mirrorNormal)
      virtualSide == dotProduct(mirrorToVirtual, mirrorNormal)
  IN  /\ RLt(RMul(observerSide, virtualSide), Zero)
      /\ isDirectlyVisible(observer.position, virtualPos, others)

RECURSIVE isImageVisibleFrom(_, _, _, _, _)
isImageVisibleFrom(obs, ms, virtualPos, mirror, k) ==
  IF k > Len(obs) THEN FALSE
  ELSE IF observerSees(obs[k], virtualPos, mirror, otherMirrors(ms, mirror))
       THEN TRUE
  ELSE isImageVisibleFrom(obs, ms, virtualPos, mirror, k + 1)

\* isImageVisible excluding every mirror with the fields of the source mirror.
isImageVisibleByFields(obs, ms, virtualPos, mirror) ==
  \E k \in 1 .. Len(obs) :
    observerSees(obs[k], virtualPos, mirror, otherMirrorsByFields(ms, mirror))

isImageVisible(obs, ms, virtualPos, mirror) ==
  isImageVisibleFrom(obs, ms, virtualPos, mirror, 1)

\* getColorForOrder: the index (from 0) of the colour in its table of four.
getColorForOrder(order) == JsRem(order - 1, 4)

\* One drawPath call: a segment on the canvas.
drawPath(start, end, dashed, color) ==
  [start |-> start, end |-> end, dashed |-> dashed, color |-> color]

\* The find of drawLightRay looking at the order alone: the first image from
\* k on of order currentImage.order - 1, whatever its sourceMirror.
findPrevImageAnyMirror(parallelImage, currentImage, k) ==
  IF \E i \in k .. Len(parallelImage) :
       parallelImage[i].order = currentImage.order - 1
  THEN CHOOSE i \in k .. Len(parallelImage) :
         /\ parallelImage[i].order = currentImage.order - 1
         /\ \A j \in k .. (i - 1) :
              parallelImage[j].order # currentImage.order - 1
  ELSE 0

\* parallelImage?.find(...): the index from k on of the first image of order
\* currentImage.order - 1 whose sourceMirror is not currentImage's, 0 when
\* there is none (both callers pass a list).
RECURSIVE findPrevImage(_, _, _)
findPrevImage(parallelImage, currentImage, k) ==
  IF k > Len(parallelImage) THEN 0
  ELSE IF /\ parallelImage[k].order = currentImage.order - 1
          /\ ~SameRef(parallelImage[k].sourceMirror, currentImage.sourceMirror)
       THEN k
  ELSE findPrevImage(parallelImage, currentImage, k + 1)

\* The paths of one pass of the while loop whose intersection exists.
chainPaths(currentIntersection, prevImage, object, color, prevIntersection) ==
  <<drawPath(prevIntersection, currentIntersection, FALSE, color)>>
    \o (IF prevImage.order = 1
        THEN <<drawPath(object.position, prevIntersection, FALSE, color)>>
        ELSE <<>>)

\* The while loop of drawLightRay.  walk is what the call has done so far:
\* the paths drawn, the passes of the loop body begun, and whether the catch
\* clause has run.  chainFound and chainCross are the rest of the body once
\* prevImage and prevIntersection are known.
RECURSIVE chainWalk(_, _, _, _, _, _)
RECURSIVE chainFound(_, _, _, _, _, _, _)
RECURSIVE chainCross(_, _, _, _, _, _, _)

\* chainFound discarding the paths drawn so far when no previous image is
\* found.
chainBroken(walk, currentIntersection, currentImage, object, parallelImage, color, p) ==
  IF p = 0 THEN [walk EXCEPT !.paths = <<>>]
  ELSE IF SameRef(parallelImage[p].sourceMirror, NoMirror)
       THEN [walk EXCEPT !.caught = TRUE]
  ELSE chainCross(walk, currentIntersection, parallelImage[p], object,
                  parallelImage, color,
                  lineIntersection(
                    currentIntersection, parallelImage[p].position,
                    getMirrorEndpoints(parallelImage[p].sourceMirror)[1],
                    getMirrorEndpoints(parallelImage[p].sourceMirror)[2]))

\* getMirrorEndpoints throws a TypeError on an undefined sourceMirror; the
\* catch clause logs it and breaks.
chainFound(walk, currentIntersection, currentImage, object, parallelImage, color, p) ==
  IF p = 0 THEN walk
  ELSE IF SameRef(parallelImage[p].sourceMirror, NoMirror)
       THEN [walk EXCEPT !.caught = TRUE]
  ELSE chainCross(walk, currentIntersection, parallelImage[p], object,
                  parallelImage, color,
                  lineIntersection(
                    currentIntersection, parallelImage[p].position,
                    getMirrorEndpoints(parallelImage[p].sourceMirror)[1],
                    getMirrorEndpoints(parallelImage[p].sourceMirror)[2]))

chainCross(walk, currentIntersection, prevImage, object, parallelImage, color, prevIntersection) ==
  IF prevIntersection = Null THEN walk
  ELSE chainWalk([walk EXCEPT !.paths =
                    @ \o chainPaths(currentIntersection, prevImage, object,
                                    color, prevIntersection)],
                 prevIntersection, prevImage, object, parallelImage, color)

chainWalk(walk, currentIntersection, currentImage, object, parallelImage, color) ==
  IF ~(currentImage.order > 1) THEN walk
  ELSE chainFound([walk EXCEPT !.iterations = @ + 1], currentIntersection,
                  currentImage, object, parallelImage, color,
                  findPrevImage(parallelImage, currentImage, 1))

\* The two paths drawn for every image whose line to the observer crosses
\* the mirror: observer to mirror, and mirror to image (dashed).
firstPaths(virtualImage, observer, mirrorIntersection) ==
  <<drawPath(mirrorIntersection, observer.position, FALSE,
             getColorForOrder(virtualImage.order)),
    drawPath(mirrorIntersection, virtualImage.position, TRUE,
             getColorForOrder(virtualImage.order))>>

\* The body of drawLightRay once mirrorIntersection is known.
rayFrom(virtualImage, object, observer, parallelImage, mirrorIntersection) ==
  IF mirrorIntersection = Null
  THEN [paths |-> <<>>, iterations |-> 0, caught |-> FALSE]
  ELSE IF virtualImage.order = 1
  THEN [paths |-> firstPaths(virtualImage, observer, mirrorIntersection)
                    \o <<drawPath(object.position, mirrorIntersection, FALSE,
                                  getColorForOrder(virtualImage.order))>>,
        iterations |-> 0, caught |-> FALSE]
  ELSE chainWalk([paths |-> firstPaths(virtualImage, observer,
                                       mirrorIntersection),
                  iterations |-> 0, caught |-> FALSE],
                 mirrorIntersection, virtualImage, object, parallelImage,
                 getColorForOrder(virtualImage.order))

\* drawLightRay(ctx, virtualImage, object, observer, mirror, parallelImage):
\* what it draws on ctx, with the count of loop passes.
drawLightRay(virtualImage, object, observer, mirror, parallelImage) ==
  rayFrom(virtualImage, object, observer, parallelImage,
          lineIntersection(virtualImage.position, observer.position,
                           getMirrorEndpoints(mirror)[1],
                           getMirrorEndpoints(mirror)[2]))

\* The default of the parameter maxReflections of
\* calculateParallelMirrorImages.
DefaultMaxReflections == 3

\* The calls of a forEach nest one after the other.
RECURSIVE flat(_)
flat(ss) == IF ss = <<>> THEN <<>> ELSE Head(ss) \o flat(Tail(ss))

\* observers.forEach((observer) => drawLightRay(ctx, img, object, observer,
\* mirror, images)): one entry per call, the observer named by its index.
lightRays(img, object, obs, mirror, images) ==
  [k \in 1 .. Len(obs) |->
     [observer |-> k, mirror |-> mirror,
      ray |-> drawLightRay(img, object, obs[k], mirror, images)]]

firstOrderImageOf(object, mirror) ==
  [calculateVirtualImagePosition(object, mirror) EXCEPT
     !.order = 1, !.sourceMirror = mirror]

\* The body of the first loop of drawVirtualImages for one object and one
\* mirror: nothing, or the image drawn (drawVirtualImage) with its rays.
drawFirstOrder(firstOrderImage, object, ms, obs, mirror) ==
  IF isImageVisible(obs, ms, firstOrderImage.position, mirror)
  THEN <<[image |-> firstOrderImage, object |-> object,
          rays |-> lightRays(firstOrderImage, object, obs, mirror,
                             <<firstOrderImage>>)]>>
  ELSE <<>>

\* The body of higherOrderImages.forEach for one image of images (those of
\* order 1 are filtered out).
drawHigherOrder(img, object, ms, obs, mirrorGroup, images) ==
  IF ~(img.order > 1) THEN <<>>
  ELSE IF isImageVisible(obs, ms, img.position, img.sourceMirror)
  THEN <<[image |-> img, object |-> object,
          rays |-> flat([g \in 1 .. Len(mirrorGroup) |->
                           lightRays(img, object, obs, mirrorGroup[g],
                                     images)])]>>
  ELSE <<>>

\* The body of parallelMirrorGroups.forEach for one group and its images.
drawGroup(object, ms, obs, mirrorGroup, images) ==
  IF Len(mirrorGroup) >= 2
  THEN flat([k \in 1 .. Len(images) |->
               drawHigherOrder(images[k], object, ms, obs, mirrorGroup,
                               images)])
  ELSE <<>>

drawGroups(object, ms, obs, parallelMirrorGroups) ==
  flat([g \in 1 .. Len(parallelMirrorGroups) |->
          drawGroup(object, ms, obs, parallelMirrorGroups[g],
                    calculateParallelMirrorImages(object,
                                                  parallelMirrorGroups[g],
                                                  DefaultMaxReflections))])

\* drawVirtualImages(ctx, objects, mirrors, observers): the images it draws
\* on ctx, in order, each with the drawLightRay calls made for it.
drawVirtualImages(objs, ms, obs) ==
  flat([o \in 1 .. Len(objs) |->
          flat([i \in 1 .. Len(ms) |->
                  drawFirstOrder(firstOrderImageOf(objs[o], ms[i]), objs[o],
                                 ms, obs, ms[i])])])
  \o flat([o \in 1 .. Len(objs) |->
             drawGroups(objs[o], ms, obs, findParallelMirrorGroups(ms))])

-----------------------------------------------------------------------------
(* The scene the engine is called on.  op names the operation that has     *)
(* been called ("init" before the call), args its arguments and result    *)
(* the value it returned.                                                  *)

NoScene == mirrors = <<>> /\ objects = <<>> /\ observers = <<>>

-----------------------------------------------------------------------------
(* SpecIntersect: lineIntersection on segments between the points of a     *)
(* grid that has a coarse part (integers) and a fine part (1/FineDen).     *)
(* Init draws the four points; the action is the call.                     *)

MaxCoord == 1
FineDen == 101

SegCoords == {I(k) : k \in 0 .. MaxCoord} \cup {Rat(1, FineDen)}

SegPoints == {Pt(x, y) : x \in SegCoords, y \in SegCoords}

InitIntersect ==
  /\ NoScene
  /\ op = "init"
  /\ args \in SegPoints \X SegPoints \X SegPoints \X SegPoints
  /\ result = Null

CallLineIntersection ==
  /\ op = "init"
  /\ op' = "lineIntersection"
  /\ result' = lineIntersection(args[1], args[2], args[3], args[4])
  /\ UNCHANGED <<mirrors, objects, observers, args>>

NextIntersect == CallLineIntersection

SpecIntersect == InitIntersect /\ [][NextIntersect]_vars

\* The cross product of two vectors, and the side of the line a-b that c is on.
Cross2(u, v) == RSub(RMul(u.x, v.y), RMul(u.y, v.x))
Orient(a, b, c) == Cross2(subtractVectors(b, a), subtractVectors(c, a))[1]

\* q lies on the closed segment a-b: q = a + t (b - a) for some t in [0, 1].
OnSegment(q, a, b) ==
  IF a = b THEN q = a
  ELSE LET t == IF b.x # a.x THEN RDiv(RSub(q.x, a.x), RSub(b.x, a.x))
                 ELSE RDiv(RSub(q.y, a.y), RSub(b.y, a.y))
       IN  /\ RLe(Zero, t)
           /\ RLe(t, One)
           /\ q = Pt(RAdd(a.x, RMul(t, RSub(b.x, a.x))),
                     RAdd(a.y, RMul(t, RSub(b.y, a.y))))

\* Each segment has its endpoints on the two closed sides of the other's line:
\* for lines that are not parallel, the segments have a common point.
Straddle(p1, p2, p3, p4) ==
  /\ Orient(p1, p2, p3) * Orient(p1, p2, p4) <= 0
  /\ Orient(p3, p4, p1) * Orient(p3, p4, p2) <= 0

DirCross(p1, p2, p3, p4) ==
  Cross2(subtractVectors(p2, p1), subtractVectors(p4, p3))

\* C4 as stated: none exactly when the directions are parallel or the crossing
\* is outside a segment; every other pair of segments yields their common point.
C4_AsStated ==
  op = "lineIntersection" =>
    LET p1 == args[1]  p2 == args[2]  p3 == args[3]  p4 == args[4]
    IN  /\ DirCross(p1, p2, p3, p4) = Zero => result = Null
        /\ DirCross(p1, p2, p3, p4) # Zero =>
              /\ ~Straddle(p1, p2, p3, p4) => result = Null
              /\ Straddle(p1, p2, p3, p4) =>
                    /\ result # Null
                    /\ OnSegment(result, p1, p2)
                    /\ OnSegment(result, p3, p4)

\* C4 (amended): lineIntersection returns none whenever the cross product of
\* the two direction vectors is smaller than 1e-4 in absolute value (exactly
\* parallel, collinear and zero-length segments included, and also crossing
\* segments so short that the product is under the threshold); otherwise it
\* returns none when the crossing lies outside either segment, and else a point
\* on both segments, endpoints inclusive: (0,0)-(10,10) against (0,10)-(10,0)
\* gives (5,5), and (0,0)-(10,0) against (0,5)-(10,5) gives none.
C4_Intersection ==
  /\ lineIntersection(IPt(0, 0), IPt(10, 10), IPt(0, 10), IPt(10, 0)) = IPt(5, 5)
  /\ lineIntersection(IPt(0, 0), IPt(10, 0), IPt(0, 5), IPt(10, 5)) = Null
  /\ op = "lineIntersection" =>
        LET p1 == args[1]  p2 == args[2]  p3 == args[3]  p4 == args[4]
            small == RLt(RAbs(DirCross(p1, p2, p3, p4)), Rat(1, 10000))
        IN  /\ small => result = Null
            /\ ~small =>
                  /\ ~Straddle(p1, p2, p3, p4) => result = Null
                  /\ Straddle(p1, p2, p3, p4) =>
                        /\ result # Null
                        /\ OnSegment(result, p1, p2)
                        /\ OnSegment(result, p3, p4)

\* Two unit diagonals cross in their common midpoint.
C4_Witness ==
  /\ op = "lineIntersection"
  /\ args = <<IPt(0, 0), IPt(1, 1), IPt(0, 1), IPt(1, 0)>>
  /\ result = Pt(Rat(1, 2), Rat(1, 2))

-----------------------------------------------------------------------------
(* SpecReflect: calculateVirtualImagePosition on one object and one mirror, *)
(* and then on the image it returned, with the same mirror.                 *)

ReflCoord == 2

ReflRotations == {-90, 0, 37, 53, 90, 143, 180, 270, 307, 450}

ReflDirections == {0, 90, 200, 359}

ReflObjects ==
  {Object(IPt(x, y), d) :
     x \in -ReflCoord .. ReflCoord, y \in -ReflCoord .. ReflCoord,
     d \in ReflDirections}

ReflMirrors ==
  {Mirror(1, IPt(x, y), I(4), r) :
     x \in 0 .. ReflCoord, y \in 0 .. ReflCoord, r \in ReflRotations}

InitReflect ==
  /\ NoScene
  /\ op = "init"
  /\ args \in ReflObjects \X ReflMirrors
  /\ result = Null

\* calculateVirtualImagePosition(object, mirror)
CallVirtualImage ==
  /\ op = "init"
  /\ op' = "image"
  /\ result' = calculateVirtualImagePosition(args[1], args[2])
  /\ UNCHANGED <<mirrors, objects, observers, args>>

\* calculateVirtualImagePosition(image, mirror) on the image just returned
CallImageOfImage ==
  /\ op = "image"
  /\ op' = "imageOfImage"
  /\ result' = calculateVirtualImagePosition(result, args[2])
  /\ UNCHANGED <<mirrors, objects, observers, args>>

NextReflect == CallVirtualImage \/ CallImageOfImage

SpecReflect == InitReflect /\ [][NextReflect]_vars

\* The signed distance of point p from the plane of mirror m.
SignedDist(p, m) ==
  dotProduct(subtractVectors(p, m.position), getMirrorNormal(m))

\* C2: reflecting the image of an object again in the same mirror returns the
\* position of the object, exactly.
C2_Involution ==
  op = "imageOfImage" => result.position = args[1].position

\* An object off the plane of an oblique mirror, reflected twice.
C2_Witness ==
  /\ op = "imageOfImage"
  /\ args[2].rotation = 53
  /\ SignedDist(args[1].position, args[2]) # Zero
  /\ result.position = args[1].position

\* C3: the signed distance of the first-order image from the mirror's plane
\* is the negation of the object's, so both are equally far from the plane,
\* and an object on the plane is its own image.
C3_MirrorSymmetry ==
  op = "image" =>
    /\ SignedDist(result.position, args[2])
         = RNeg(SignedDist(args[1].position, args[2]))
    /\ RAbs(SignedDist(result.position, args[2]))
         = RAbs(SignedDist(args[1].position, args[2]))
    /\ SignedDist(args[1].position, args[2]) = Zero
         => result.position = args[1].position

\* An image on the other side of an oblique mirror that is off the origin.
C3_Witness ==
  /\ op = "image"
  /\ args[2].rotation = 37
  /\ args[2].position = IPt(1, 2)
  /\ RLt(Zero, SignedDist(args[1].position, args[2]))
  /\ RLt(SignedDist(result.position, args[2]), Zero)

\* C13: for an object direction in [0, 360) and any integer mirror rotation
\* the direction returned by calculateVirtualImagePosition is the residue of
\* 2 * normalizedMirrorAngle - object.direction + 180 modulo 360, a value in
\* [0, 360).
C13_DirectionResidue ==
  op = "image" =>
    /\ result.direction
         = (2 * NormDeg(args[2].rotation) - args[1].direction + 180) % 360
    /\ result.direction \in 0 .. 359

-----------------------------------------------------------------------------
(* SpecGroups: findParallelMirrorGroups on every list of at most           *)
(* MaxGroupMirrors mirrors whose rotations are drawn from GroupRotations.  *)
(* Rotations 0, 2, 4 and 6 make areParallel non-transitive: neighbours are *)
(* parallel within the tolerance, 0 and 4 are not.                         *)

MaxGroupMirrors == 4

GroupRotations == {0, 2, 4, 6, 90, 180}

\* The lists of n distinct mirror objects (ids 1..n, one unit apart).
MirrorLists(n) ==
  {[k \in 1 .. n |-> Mirror(k, IPt(k, 0), I(4), rot[k])] :
     rot \in [1 .. n -> GroupRotations]}

InitGroups ==
  /\ NoScene
  /\ op = "init"
  /\ \E n \in 0 .. MaxGroupMirrors : \E ms \in MirrorLists(n) : args = <<ms>>
  /\ result = Null

\* findParallelMirrorGroups(mirrors)
CallFindGroups ==
  /\ op = "init"
  /\ op' = "findParallelMirrorGroups"
  /\ result' = findParallelMirrorGroups(args[1])
  /\ UNCHANGED <<mirrors, objects, observers, args>>

NextGroups == CallFindGroups

SpecGroups == InitGroups /\ [][NextGroups]_vars

\* The number of positions of mirror m in group.
Occurrences(group, m) == Cardinality({k \in 1 .. Len(group) : SameRef(group[k], m)})

PairwiseParallel(ms) ==
  \A i \in 1 .. Len(ms), j \in 1 .. Len(ms) : areParallel(ms[i], ms[j])

\* C6: on a list of two or more mirrors that are pairwise parallel, in any
\* order, findParallelMirrorGroups returns exactly one group, and that group
\* holds every mirror of the list exactly once.
C6_OneGroup ==
  (op = "findParallelMirrorGroups" /\ Len(args[1]) >= 2 /\ PairwiseParallel(args[1]))
    => /\ Len(result) = 1
       /\ Len(result[1]) = Len(args[1])
       /\ \A i \in 1 .. Len(args[1]) : Occurrences(result[1], args[1][i]) = 1

\* Four mutually parallel mirrors, same-facing, opposite-facing and within the
\* tolerance, end in one group.
C6_Witness ==
  /\ op = "findParallelMirrorGroups"
  /\ Len(args[1]) = 4
  /\ <<args[1][1].rotation, args[1][2].rotation,
        args[1][3].rotation, args[1][4].rotation>> = <<2, 180, 0, 2>>
  /\ Len(result) = 1
  /\ Len(result[1]) = 4

\* C7: the result is a partition into parallel groups: no mirror is in two
\* groups, and any two mirrors of one group satisfy areParallel.
C7_Partition ==
  op = "findParallelMirrorGroups" =>
    /\ \A g \in 1 .. Len(result), h \in 1 .. Len(result) :
         g # h => \A k \in 1 .. Len(result[g]) : ~includes(result[h], result[g][k])
    /\ \A g \in 1 .. Len(result) :
         \A k \in 1 .. Len(result[g]), l \in 1 .. Len(result[g]) :
           areParallel(result[g][k], result[g][l])

-----------------------------------------------------------------------------
(* SpecParallel: areParallel on two mirrors, asked in both orders.         *)

ParRotations == KnownDeg \cup {-90, -180, 360, 397, 450}

InitParallel ==
  /\ NoScene
  /\ op = "init"
  /\ \E r1 \in ParRotations, r2 \in ParRotations :
       args = <<Mirror(1, IPt(0, 0), I(4), r1), Mirror(2, IPt(1, 0), I(4), r2)>>
  /\ result = Null

\* areParallel(a, b)
CallAreParallel ==
  /\ op = "init"
  /\ op' = "areParallel"
  /\ result' = [ab |-> areParallel(args[1], args[2])]
  /\ UNCHANGED <<mirrors, objects, observers, args>>

\* areParallel(b, a), after areParallel(a, b)
CallAreParallelSwapped ==
  /\ op = "areParallel"
  /\ op' = "areParallelSwapped"
  /\ result' = [ab |-> result.ab, ba |-> areParallel(args[2], args[1])]
  /\ UNCHANGED <<mirrors, objects, observers, args>>

NextParallel == CallAreParallel \/ CallAreParallelSwapped

SpecParallel == InitParallel /\ [][NextParallel]_vars

\* C8: areParallel(a, b) = areParallel(b, a), and two mirrors whose rotations
\* are equal or differ by 180 degrees (modulo 360) are parallel.
C8_Symmetric ==
  /\ op = "areParallelSwapped" => result.ab = result.ba
  /\ op = "areParallel" =>
        LET d == NormDeg(args[1].rotation - args[2].rotation)
        IN  d \in {0, 180} => result.ab

\* Opposite-facing oblique mirrors, asked in both orders, are parallel.
C8_Witness ==
  /\ op = "areParallelSwapped"
  /\ args[1].rotation = 37
  /\ args[2].rotation = 217
  /\ result.ab
  /\ result.ba

-----------------------------------------------------------------------------
(* SpecSight: isDirectlyVisible between two grid points, past a list of    *)
(* at most MaxSightMirrors mirrors.                                        *)

MaxSightMirrors == 2
SightCoord == 2

SightPoints == {IPt(x, y) : x \in 0 .. SightCoord, y \in 0 .. SightCoord}

\* Mirrors of height 2: vertical, horizontal and oblique, at two centers.
SightPlacements ==
  {<<IPt(1, 1), 0>>, <<IPt(1, 1), 90>>, <<IPt(1, 1), 53>>,
   <<IPt(2, 1), 0>>, <<IPt(1, 0), 90>>}

SightMirrorLists(n) ==
  {[k \in 1 .. n |-> Mirror(k, pl[k][1], I(2), pl[k][2])] :
     pl \in [1 .. n -> SightPlacements]}

InitSight ==
  /\ objects = <<>>
  /\ observers = <<>>
  /\ \E n \in 0 .. MaxSightMirrors : mirrors \in SightMirrorLists(n)
  /\ op = "init"
  /\ args \in SightPoints \X SightPoints
  /\ result = Null

\* isDirectlyVisible(from, to, mirrors)
CallIsDirectlyVisible ==
  /\ op = "init"
  /\ op' = "isDirectlyVisible"
  /\ result' = isDirectlyVisible(args[1], args[2], mirrors)
  /\ UNCHANGED <<mirrors, objects, observers, args>>

NextSight == CallIsDirectlyVisible

SpecSight == InitSight /\ [][NextSight]_vars

\* The segment a-b intersects the segment of mirror m, per lineIntersection.
Blocks(m, a, b) ==
  lineIntersection(a, b, getMirrorEndpoints(m)[1], getMirrorEndpoints(m)[2]) # Null

Reverse(sq) == [k \in 1 .. Len(sq) |-> sq[Len(sq) + 1 - k]]

\* C5: isDirectlyVisible(from, to, mirrors) is false exactly when the segment
\* from-to intersects the segment of at least one mirror of the list, whatever
\* the order of the list; a mirror spanning x in [-50,50] at y = 50 blocks
\* (0,0)-(0,100), and the same mirror spanning x in [100,150] does not.
C5_DirectlyVisible ==
  /\ ~isDirectlyVisible(IPt(0, 0), IPt(0, 100), <<Mirror(1, IPt(0, 50), I(100), 90)>>)
  /\ isDirectlyVisible(IPt(0, 0), IPt(0, 100), <<Mirror(1, IPt(125, 50), I(50), 90)>>)
  /\ op = "isDirectlyVisible" =>
        /\ result = ~(\E k \in 1 .. Len(mirrors) : Blocks(mirrors[k], args[1], args[2]))
        /\ result = isDirectlyVisible(args[1], args[2], Reverse(mirrors))

\* The sight line passes the first mirror of the list and is blocked by the
\* second.
C5_Witness ==
  /\ op = "isDirectlyVisible"
  /\ Len(mirrors) = 2
  /\ ~Blocks(mirrors[1], args[1], args[2])
  /\ Blocks(mirrors[2], args[1], args[2])
  /\ result = FALSE

-----------------------------------------------------------------------------
(* SpecImageVisible: isImageVisible for a virtual position and a source    *)
(* mirror of the scene, seen by at most MaxObservers observers.  A scene   *)
(* may hold two mirror objects with the same fields.                       *)

MaxObservers == 2
MaxVisMirrors == 2

\* The virtual positions asked about.
VisPoints == {IPt(x, y) : x \in 0 .. 2, y \in 0 .. 2}

VisPlacements == {<<IPt(1, 1), 0>>, <<IPt(1, 1), 90>>, <<IPt(1, 1), 180>>, <<IPt(2, 1), 53>>}

VisMirrorLists(n) ==
  {[k \in 1 .. n |-> Mirror(k, pl[k][1], I(2), pl[k][2])] :
     pl \in [1 .. n -> VisPlacements]}

ObserverLists(n) ==
  {[k \in 1 .. n |-> Observer(ps[k])] :
     ps \in [1 .. n -> {IPt(2, 1), IPt(2, 2), IPt(1, 2), IPt(0, 0)}]}

InitImageVisible ==
  /\ objects = <<>>
  /\ \E n \in 0 .. MaxObservers : observers \in ObserverLists(n)
  /\ \E n \in 1 .. MaxVisMirrors : mirrors \in VisMirrorLists(n)
  /\ op = "init"
  /\ \E p \in VisPoints, k \in 1 .. Len(mirrors) : args = <<p, mirrors[k]>>
  /\ result = Null

\* isImageVisible(observers, mirrors, virtualPos, mirror)
CallIsImageVisible ==
  /\ op = "init"
  /\ op' = "isImageVisible"
  /\ result' = isImageVisible(observers, mirrors, args[1], args[2])
  /\ UNCHANGED <<mirrors, objects, observers, args>>

NextImageVisible == CallIsImageVisible

SpecImageVisible == InitImageVisible /\ [][NextImageVisible]_vars

\* Observer o and point p are strictly on opposite sides of the plane of m.
OppositeSides(o, p, m) ==
  \/ RLt(SignedDist(o, m), Zero) /\ RLt(Zero, SignedDist(p, m))
  \/ RLt(Zero, SignedDist(o, m)) /\ RLt(SignedDist(p, m), Zero)

\* C9: isImageVisible is true exactly when some observer is strictly on the
\* other side of the source mirror's plane than the virtual position and the
\* segment from that observer to the virtual position intersects no mirror
\* object other than the source mirror; it is false with no observers.
C9_ImageVisible ==
  op = "isImageVisible" =>
    /\ result =
         (\E k \in 1 .. Len(observers) :
            /\ OppositeSides(observers[k].position, args[1], args[2])
            /\ \A j \in 1 .. Len(mirrors) :
                 mirrors[j].id # args[2].id
                   => ~Blocks(mirrors[j], observers[k].position, args[1]))
    /\ Len(observers) = 0 => result = FALSE

\* An observer is on the other side of the source mirror than the virtual
\* position, and the only other mirror of the scene is a second mirror object
\* with the fields of the source mirror: it is not excluded, and it blocks.
C9_Witness ==
  /\ op = "isImageVisible"
  /\ Len(mirrors) = 2
  /\ args[2].id = 1
  /\ mirrors[2].position = mirrors[1].position
  /\ mirrors[2].rotation = mirrors[1].rotation
  /\ \E k \in 1 .. Len(observers) :
       OppositeSides(observers[k].position, args[1], args[2])
  /\ result = FALSE

-----------------------------------------------------------------------------
(* SpecImages: calculateParallelMirrorImages on one object and a group of  *)
(* at most MaxImgMirrors mirrors, for maxReflections up to MaxReflections. *)
(* The placements hold pairs of parallel mirrors a quarter of a unit, four *)
(* and five units apart, axis-aligned and oblique, and a perpendicular one. *)

MaxImgMirrors == 2
MaxReflections == 3

ImgPlacements ==
  {<<IPt(0, 0), 180>>, <<Pt(Rat(1, 4), I(0)), 0>>, <<IPt(4, 0), 0>>,
   <<IPt(0, 0), 53>>, <<IPt(3, 4), 233>>, <<IPt(0, 2), 90>>}

ImgMirrorLists(n) ==
  {[k \in 1 .. n |-> Mirror(k, pl[k][1], I(4), pl[k][2])] :
     pl \in [1 .. n -> ImgPlacements]}

ImgObjects ==
  {Object(p, 0) : p \in {Pt(Rat(1, 8), I(0)), IPt(2, 1), IPt(1, 2), IPt(5, 0)}}

InitImages ==
  /\ NoScene
  /\ op = "init"
  /\ \E o \in ImgObjects, n \in 1 .. MaxImgMirrors, r \in 1 .. MaxReflections :
       \E ms \in ImgMirrorLists(n) : args = <<o, ms, r>>
  /\ result = Null

\* calculateParallelMirrorImages(object, mirrors, maxReflections)
CallParallelMirrorImages ==
  /\ op = "init"
  /\ op' = "calculateParallelMirrorImages"
  /\ result' = calculateParallelMirrorImages(args[1], args[2], args[3])
  /\ UNCHANGED <<mirrors, objects, observers, args>>

NextImages == CallParallelMirrorImages

SpecImages == InitImages /\ [][NextImages]_vars

\* The normals of a and b are equal or opposite.
ExactlyParallel(a, b) ==
  RAbs(dotProduct(getMirrorNormal(a), getMirrorNormal(b))) = One

\* The distance between the planes of two exactly parallel mirrors.
PlaneGap(a, b) == RAbs(SignedDist(b.position, a))

\* p is strictly between the planes of the exactly parallel mirrors a and b.
Between(p, a, b) ==
  LET da == SignedDist(p, a)
      db == dotProduct(subtractVectors(p, b.position), getMirrorNormal(a))
  IN  RLt(RMul(da, db), Zero)

\* The positions of result whose image has order k.
OfOrder(images, k) == {i \in 1 .. Len(images) : images[i].order = k}

\* Exactly 2n images, two of each order 1..n, made by the two mirrors in
\* turn: an image of order k >= 2 is the reflection, in its source mirror, of
\* the image of order k-1 that the other mirror made.
TwoPerOrder(images, object, ms, n) ==
  /\ Len(images) = 2 * n
  /\ \A k \in 1 .. n :
       /\ Cardinality(OfOrder(images, k)) = 2
       /\ {images[i].sourceMirror.id : i \in OfOrder(images, k)} = {ms[1].id, ms[2].id}
  /\ \A i \in 1 .. Len(images) :
       IF images[i].order = 1
       THEN images[i].position
              = calculateVirtualImagePosition(object, images[i].sourceMirror).position
       ELSE \E j \in OfOrder(images, images[i].order - 1) :
              /\ images[j].sourceMirror.id # images[i].sourceMirror.id
              /\ images[i].position
                   = calculateVirtualImagePosition(images[j], images[i].sourceMirror).position

\* C1 as stated: two parallel mirrors on distinct planes and an object between
\* them give exactly 2n images, two per order, the source mirrors alternating.
C1_AsStated ==
  (/\ op = "calculateParallelMirrorImages"
   /\ Len(args[2]) = 2
   /\ ExactlyParallel(args[2][1], args[2][2])
   /\ PlaneGap(args[2][1], args[2][2]) # Zero
   /\ Between(args[1].position, args[2][1], args[2][2]))
    => TwoPerOrder(result, args[1], args[2], args[3])

\* C1 (amended): for a group of exactly two parallel mirrors (equal or
\* opposite normals) whose planes are at least one unit apart, and any object,
\* calculateParallelMirrorImages with maxReflections = n returns exactly 2n
\* images: two for each order 1..n, and along each derivation chain the
\* sourceMirror alternates between the two mirrors.  (Mirrors 400 apart with
\* rotations 180 and 0, the object centered, n = 3: exactly 6 images.)  When
\* the planes are closer, two images of one order can round to the same
\* integer position and the second is dropped.
C1_TwoPerOrder ==
  /\ Len(calculateParallelMirrorImages(
            Object(IPt(200, 50), 0),
            <<Mirror(1, IPt(0, 50), I(400), 180), Mirror(2, IPt(400, 50), I(400), 0)>>,
            3)) = 6
  /\ (/\ op = "calculateParallelMirrorImages"
       /\ Len(args[2]) = 2
       /\ ExactlyParallel(args[2][1], args[2][2])
       /\ RLe(One, PlaneGap(args[2][1], args[2][2])))
        => TwoPerOrder(result, args[1], args[2], args[3])

\* Two oblique mirrors five units apart, the object between them, three
\* reflections: six images.
C1_Witness ==
  /\ op = "calculateParallelMirrorImages"
  /\ Len(args[2]) = 2
  /\ args[2][1].rotation = 53
  /\ args[2][2].rotation = 233
  /\ Between(args[1].position, args[2][1], args[2][2])
  /\ args[3] = 3
  /\ Len(result) = 6

\* The image of seed (an object or an image) in mirror m, as an image of
\* order k.
ImageIn(seed, m, k) ==
  [position |-> calculateVirtualImagePosition(seed, m).position,
   direction |-> calculateVirtualImagePosition(seed, m).direction,
   size |-> seed.size, order |-> k, sourceMirror |-> m]

\* C14: every image returned has an order in 1..maxReflections and a source
\* mirror of the group; an image of order 1 is the reflection of the real
\* object in its source mirror, and an image of order k >= 2 is the
\* reflection, in its source mirror, of a returned image of order k-1 whose
\* source mirror is a different mirror.
C14_Provenance ==
  op = "calculateParallelMirrorImages" =>
    \A i \in 1 .. Len(result) :
      /\ result[i].order \in 1 .. args[3]
      /\ \E m \in 1 .. Len(args[2]) : args[2][m] = result[i].sourceMirror
      /\ IF result[i].order = 1
         THEN result[i] = ImageIn(args[1], result[i].sourceMirror, 1)
         ELSE \E j \in OfOrder(result, result[i].order - 1) :
                /\ result[j].sourceMirror.id # result[i].sourceMirror.id
                /\ result[i] = ImageIn(result[j], result[i].sourceMirror,
                                       result[i].order)

\* Two facing mirrors four units apart, three reflections: the images of
\* order 2 and 3 are there, each the image of one of the order before.
C14_Witness ==
  /\ op = "calculateParallelMirrorImages"
  /\ Len(args[2]) = 2
  /\ args[2][1].rotation = 180 /\ args[2][2].position = IPt(4, 0)
  /\ args[1].position = IPt(2, 1)
  /\ args[3] = 3
  /\ \E i \in 1 .. Len(result) :
       /\ result[i].order = 3
       /\ result[i].position = IPt(-10, 1)

\* The key the images are told apart by: rounded position and order.
KeyOf(image) ==
  <<MathRound(image.position.x), MathRound(image.position.y), image.order>>

\* The images of order k in the order they were returned.
ImagesOfOrder(images, k) == SelectSeq(images, LAMBDA r : r.order = k)

\* The candidates of depth k: for every seed in turn, its image in every
\* mirror of ms in turn but the seed's source mirror (t counts the pairs).
RECURSIVE CandidatesFrom(_, _, _, _)
CandidatesFrom(seeds, ms, k, t) ==
  IF t > Len(seeds) * Len(ms) THEN <<>>
  ELSE LET seed == seeds[((t - 1) \div Len(ms)) + 1]
           m == ms[((t - 1) % Len(ms)) + 1]
       IN  (IF m.id = seed.sourceMirror.id THEN <<>>
            ELSE <<ImageIn(seed, m, k)>>)
             \o CandidatesFrom(seeds, ms, k, t + 1)

\* The seeds of depth k: the real object for k = 1, else the returned images
\* of order k-1.
SeedsOf(images, object, k) ==
  IF k = 1
  THEN <<[position |-> object.position, direction |-> object.direction,
          size |-> object.size, sourceMirror |-> NoMirror]>>
  ELSE ImagesOfOrder(images, k - 1)

\* The positions of cands whose key no earlier candidate has.
FirstOfKey(cands) ==
  {t \in 1 .. Len(cands) : \A u \in 1 .. (t - 1) : KeyOf(cands[u]) # KeyOf(cands[t])}

\* kept is cands with every candidate dropped whose key an earlier one has.
KeepsFirstOfKey(kept, cands) ==
  /\ Len(kept) = Cardinality(FirstOfKey(cands))
  /\ \A t \in FirstOfKey(cands) :
       kept[Cardinality({u \in FirstOfKey(cands) : u <= t})] = cands[t]

\* C15: no two returned images have the same (round(x), round(y), order);
\* of the candidates of one depth that collide on that key only the first
\* met (previous-depth images outside, mirrors of the group inside) is
\* returned, the candidates of a depth are the images of returned images
\* only, and the key of an image of another order does not drop a candidate.
C15_Dedup ==
  (op = "calculateParallelMirrorImages" /\ Len(args[2]) >= 2) =>
    /\ \A i, j \in 1 .. Len(result) :
         i # j => KeyOf(result[i]) # KeyOf(result[j])
    /\ \A k \in 1 .. args[3] :
         KeepsFirstOfKey(ImagesOfOrder(result, k),
                         CandidatesFrom(SeedsOf(result, args[1], k), args[2], k, 1))

\* Two perpendicular mirrors: the two candidates of order 2 collide and one
\* is returned, and the image of order 3 is returned at the rounded position
\* of an image of order 1.
C15_Witness ==
  /\ op = "calculateParallelMirrorImages"
  /\ Len(args[2]) = 2
  /\ args[2][1].rotation = 180 /\ args[2][2].rotation = 90
  /\ args[1].position = IPt(2, 1)
  /\ args[3] = 3
  /\ Cardinality(OfOrder(result, 2)) = 1
  /\ \E i \in OfOrder(result, 1), j \in OfOrder(result, 3) :
       /\ MathRound(result[i].position.x) = MathRound(result[j].position.x)
       /\ MathRound(result[i].position.y) = MathRound(result[j].position.y)

\* C16 as stated: for any non-empty group, a group of one mirror included,
\* the images of order 1 are the images of the real object in each mirror of
\* the group, less the ones dropped as duplicates.
C16_AsStated ==
  (op = "calculateParallelMirrorImages" /\ Len(args[2]) >= 1) =>
    KeepsFirstOfKey(ImagesOfOrder(result, 1),
                    CandidatesFrom(SeedsOf(result, args[1], 1), args[2], 1, 1))

\* C16 (amended): for a group of at least two mirrors the images of order 1
\* are the images of the real object in each mirror of the group, less the
\* ones dropped as duplicates; for a group of fewer than two mirrors the
\* result is empty.
C16_FirstOrder ==
  op = "calculateParallelMirrorImages" =>
    IF Len(args[2]) >= 2
    THEN KeepsFirstOfKey(ImagesOfOrder(result, 1),
                         CandidatesFrom(SeedsOf(result, args[1], 1), args[2], 1, 1))
    ELSE result = <<>>

\* Two mirrors that are not parallel: one image of order 1 in each.
C16_Witness ==
  /\ op = "calculateParallelMirrorImages"
  /\ Len(args[2]) = 2
  /\ args[2][1].rotation = 53 /\ args[2][2].rotation = 90
  /\ Cardinality(OfOrder(result, 1)) = 2

-----------------------------------------------------------------------------
(* SpecVirtualMirrors: calculateVirtualMirrors on every list of at most    *)
(* MaxVmMirrors mirrors.  The rotations of one list come from one family   *)
(* that reflection maps to itself: the axis-aligned or the oblique one.    *)

MaxVmMirrors == 3

VmFamilies == {{0, 90, 180, 270}, {53, 143, 233, 323}}

VmMirrorLists(n) ==
  UNION {{[k \in 1 .. n |-> Mirror(k, IPt(2 * k, k), I(4), rot[k])] :
            rot \in [1 .. n -> fam]} : fam \in VmFamilies}

InitVirtualMirrors ==
  /\ NoScene
  /\ op = "init"
  /\ \E n \in 0 .. MaxVmMirrors : \E ms \in VmMirrorLists(n) : args = <<ms>>
  /\ result = Null

\* calculateVirtualMirrors(mirrors)
CallVirtualMirrors ==
  /\ op = "init"
  /\ op' = "calculateVirtualMirrors"
  /\ result' = calculateVirtualMirrors(args[1])
  /\ UNCHANGED <<mirrors, objects, observers, args>>

NextVirtualMirrors == CallVirtualMirrors

SpecVirtualMirrors == InitVirtualMirrors /\ [][NextVirtualMirrors]_vars

\* The pairs (i, j), i # j, in the order of the first loop nest.
OrderedPairs(n) ==
  LET all == [k \in 1 .. n * n |-> <<((k - 1) \div n) + 1, ((k - 1) % n) + 1>>]
  IN  SelectSeq(all, LAMBDA pr : pr[1] # pr[2])

\* Virtual mirror v is source reflected in m, tagged with order ord.
IsReflectionOf(v, source, m, ord) ==
  /\ v.order = ord
  /\ v.isVirtual
  /\ v.sourceMirror.id = m.id
  /\ v.position = calculateVirtualMirror(source, m).position
  /\ v.rotation = calculateVirtualMirror(source, m).rotation

\* C10: for n real mirrors calculateVirtualMirrors returns n(n-1) first-order
\* virtual mirrors, one per ordered pair i # j (mirror i reflected in mirror j,
\* order 1, sourceMirror = mirror j), followed by n(n-1)^2 second-order ones:
\* each first-order v reflected in each real mirror m other than
\* v.sourceMirror (order 2, sourceMirror = m).  Nothing has an order above 2,
\* and for n <= 1 the result is empty.
C10_VirtualMirrors ==
  op = "calculateVirtualMirrors" =>
    LET ms == args[1]
        n == Len(ms)
        n1 == n * (n - 1)
        n2 == n * (n - 1) * (n - 1)
    IN  /\ n <= 1 => result = <<>>
        /\ n >= 2 =>
              /\ Len(result) = n1 + n2
              /\ \A k \in 1 .. n1 :
                   IsReflectionOf(result[k], ms[OrderedPairs(n)[k][1]],
                                  ms[OrderedPairs(n)[k][2]], 1)
              /\ \A t \in n1 + 1 .. n1 + n2 :
                   \E a \in 1 .. n1, j \in 1 .. n :
                     /\ ms[j].id # result[a].sourceMirror.id
                     /\ IsReflectionOf(result[t], result[a], ms[j], 2)
              /\ \A a \in 1 .. n1, j \in 1 .. n :
                   ms[j].id # result[a].sourceMirror.id
                     => \E t \in n1 + 1 .. n1 + n2 :
                          IsReflectionOf(result[t], result[a], ms[j], 2)
              /\ \A t \in 1 .. Len(result) : result[t].order \in {1, 2}

\* Three oblique mirrors: 6 first-order and 12 second-order virtual mirrors.
C10_Witness ==
  /\ op = "calculateVirtualMirrors"
  /\ Len(args[1]) = 3
  /\ args[1][1].rotation = 53
  /\ Len(result) = 18
  /\ result[6].order = 1
  /\ result[7].order = 2

-----------------------------------------------------------------------------
(* SpecEngine: any sequence of calls of the engine's operations on one     *)
(* scene.  The scene is the caller's: none of the functions assigns to a   *)
(* property of an argument or calls a mutating method on an argument       *)
(* array (the arrays they push to, results, groups, virtualObjects,        *)
(* virtualMirrors, are created inside the call), so each call leaves       *)
(* mirrors, objects and observers alone.  args keeps the scene as it was   *)
(* before the first call; op is the last call and its arguments.           *)

MaxEngMirrors == 2

EngPlacements == {<<IPt(0, 0), 0>>, <<IPt(4, 0), 180>>, <<IPt(2, 3), 90>>}

EngMirrorLists ==
  UNION {{[k \in 1 .. n |-> Mirror(k, pl[k][1], I(2), pl[k][2])] :
            pl \in [1 .. n -> EngPlacements]} : n \in 0 .. MaxEngMirrors}

EngObjectLists == {<<>>, <<Object(IPt(2, 1), 0)>>}

EngObserverLists ==
  {<<>>, <<Observer(IPt(2, -1))>>, <<Observer(IPt(-2, 1)), Observer(IPt(6, 1))>>}

InitEngine ==
  /\ mirrors \in EngMirrorLists
  /\ objects \in EngObjectLists
  /\ observers \in EngObserverLists
  /\ op = <<"init">>
  /\ args = <<mirrors, objects, observers>>
  /\ result = Null

\* calculateVirtualMirrors(mirrors)
EngVirtualMirrors ==
  /\ op' = <<"calculateVirtualMirrors">>
  /\ result' = calculateVirtualMirrors(mirrors)
  /\ UNCHANGED <<mirrors, objects, observers, args>>

\* calculateVirtualMirror(mirrors[i], mirrors[j])
EngVirtualMirror ==
  \E i \in 1 .. Len(mirrors), j \in 1 .. Len(mirrors) :
    /\ op' = <<"calculateVirtualMirror", i, j>>
    /\ result' = calculateVirtualMirror(mirrors[i], mirrors[j])
    /\ UNCHANGED <<mirrors, objects, observers, args>>

\* findParallelMirrorGroups(mirrors)
EngFindGroups ==
  /\ op' = <<"findParallelMirrorGroups">>
  /\ result' = findParallelMirrorGroups(mirrors)
  /\ UNCHANGED <<mirrors, objects, observers, args>>

\* calculateParallelMirrorImages(objects[1], mirrors, n)
EngParallelImages ==
  \E n \in 1 .. 2 :
    /\ Len(objects) > 0
    /\ op' = <<"calculateParallelMirrorImages", n>>
    /\ result' = calculateParallelMirrorImages(objects[1], mirrors, n)
    /\ UNCHANGED <<mirrors, objects, observers, args>>

\* isDirectlyVisible(objects[1].position, observers[k].position, mirrors)
EngDirectlyVisible ==
  \E k \in 1 .. Len(observers) :
    /\ Len(objects) > 0
    /\ op' = <<"isDirectlyVisible", k>>
    /\ result' = isDirectlyVisible(objects[1].position, observers[k].position,
                                   mirrors)
    /\ UNCHANGED <<mirrors, objects, observers, args>>

\* isImageVisible(observers, mirrors, position of the image in mirrors[i],
\* mirrors[i])
EngImageVisible ==
  \E i \in 1 .. Len(mirrors) :
    /\ Len(objects) > 0
    /\ op' = <<"isImageVisible", i>>
    /\ result' = isImageVisible(
                   observers, mirrors,
                   calculateVirtualImagePosition(objects[1], mirrors[i]).position,
                   mirrors[i])
    /\ UNCHANGED <<mirrors, objects, observers, args>>

NextEngine ==
  \/ EngVirtualMirrors
  \/ EngVirtualMirror
  \/ EngFindGroups
  \/ EngParallelImages
  \/ EngDirectlyVisible
  \/ EngImageVisible

SpecEngine == InitEngine /\ [][NextEngine]_vars

\* The fields of a real mirror (MirrorProps without the optional ones).
RealMirrorFields == {"id", "position", "width", "height", "rotation"}

-----------------------------------------------------------------------------
(* SpecRay: drawLightRay on an image of order up to MaxRayOrder, an        *)
(* observer and any list of at most MaxRayImages images.                   *)
(* The images are those of an object between two facing mirrors, by order  *)
(* and source mirror, and images without a source mirror.                  *)

MaxRayImages == 2
MaxRayOrder == 3

RayMirrors == <<Mirror(1, IPt(0, 0), I(4), 180), Mirror(2, IPt(4, 0), I(4), 0)>>

RayObject == Object(IPt(1, 0), 0)

\* The position of the image of order k made last by RayMirrors[i], the
\* two mirrors reflecting in turn.
RECURSIVE RayImagePosition(_, _)
RayImagePosition(k, i) ==
  IF k = 0 THEN RayObject.position
  ELSE calculateVirtualImagePosition(
         [RayObject EXCEPT !.position = RayImagePosition(k - 1, 3 - i)],
         RayMirrors[i]).position

RayImages ==
  {[position |-> RayImagePosition(k, i), direction |-> 0, size |-> 30,
    order |-> k, sourceMirror |-> RayMirrors[i]] :
     k \in 1 .. MaxRayOrder, i \in 1 .. 2}
  \cup {[position |-> RayObject.position, direction |-> 0, size |-> 30,
         order |-> k, sourceMirror |-> NoMirror] : k \in 1 .. MaxRayOrder}

RayImageLists == UNION {[1 .. n -> RayImages] : n \in 0 .. MaxRayImages}

RayObservers == {Observer(IPt(2, 0)), Observer(IPt(3, 1)), Observer(IPt(2, 9))}

InitRay ==
  /\ NoScene
  /\ op = "init"
  /\ \E v \in RayImages, o \in RayObservers, i \in 1 .. 2, l \in RayImageLists :
       /\ ~SameRef(v.sourceMirror, NoMirror)
       /\ args = <<v, RayObject, o, RayMirrors[i], l>>
  /\ result = Null

\* drawLightRay(ctx, virtualImage, object, observer, mirror, parallelImage)
CallDrawLightRay ==
  /\ op = "init"
  /\ op' = "drawLightRay"
  /\ result' = drawLightRay(args[1], args[2], args[3], args[4], args[5])
  /\ UNCHANGED <<mirrors, objects, observers, args>>

NextRay == CallDrawLightRay

SpecRay == InitRay /\ [][NextRay]_vars

\* The images of list l the walk may step to from image cur.
PrevCandidates(l, cur) ==
  {i \in 1 .. Len(l) :
     /\ l[i].order = cur.order - 1
     /\ l[i].sourceMirror.id # cur.sourceMirror.id}

\* The first candidate has a source mirror whose segment the line from
\* point from to the candidate's position does not cross.
FirstCandidateMisses(l, cur, from) ==
  LET i == CHOOSE c \in PrevCandidates(l, cur) :
             \A e \in PrevCandidates(l, cur) : c <= e
      ends == getMirrorEndpoints(l[i].sourceMirror)
  IN  /\ l[i].sourceMirror # NoMirror
      /\ lineIntersection(from, l[i].position, ends[1], ends[2]) = Null

\* C12: the chain walk ends without raising after at most k-1 passes for an
\* image of order k and any list of images; when no image of order k-1 with a
\* different source mirror exists, or the intersection with that image's
\* mirror is none, it stops in that pass and the paths already drawn stay.
C12_ChainWalk ==
  op = "drawLightRay" =>
    LET v == args[1]
        ends == getMirrorEndpoints(args[4])
        hit == lineIntersection(v.position, args[3].position, ends[1], ends[2])
    IN  /\ result.iterations <= (IF v.order > 1 THEN v.order - 1 ELSE 0)
        /\ Len(result.paths) <= 3 + result.iterations
        /\ (hit # Null /\ v.order > 1) =>
             /\ Len(result.paths) >= 2
             /\ SubSeq(result.paths, 1, 2) = firstPaths(v, args[3], hit)
             /\ PrevCandidates(args[5], v) = {} =>
                  /\ result.paths = firstPaths(v, args[3], hit)
                  /\ result.iterations = 1
                  /\ ~result.caught
             /\ (PrevCandidates(args[5], v) # {}
                   /\ FirstCandidateMisses(args[5], v, hit)) =>
                  /\ result.paths = firstPaths(v, args[3], hit)
                  /\ result.iterations = 1

\* An image of order 3 whose walk found the image of order 2, drew the path
\* between the two mirrors, and found no image of order 1: two passes, and
\* the three paths drawn are kept.
C12_Witness ==
  /\ op = "drawLightRay"
  /\ args[1].order = 3
  /\ result.iterations = 2
  /\ Len(result.paths) = 3
  /\ ~result.caught

-----------------------------------------------------------------------------
(* SpecTrace: the images of an object in a group of exactly two mirrors,   *)
(* then the backward walk of drawLightRay over them: from a returned image *)
(* of order above 1, each step is the find of one pass of the while loop   *)
(* (the walk continues as long as the intersections exist).  result holds  *)
(* the images, the positions of the image the walk started from and of    *)
(* the current image, and that of the image the find selected (0 for      *)
(* none).                                                                  *)

InitTrace ==
  /\ NoScene
  /\ op = "init"
  /\ \E o \in ImgObjects, ms \in ImgMirrorLists(2), r \in 1 .. MaxReflections :
       args = <<o, ms, r>>
  /\ result = Null

\* const images = calculateParallelMirrorImages(object, mirrorGroup)
CallTraceImages ==
  /\ op = "init"
  /\ op' = "images"
  /\ result' = [images |-> calculateParallelMirrorImages(args[1], args[2], args[3]),
                start |-> 0, current |-> 0, prev |-> 0]
  /\ UNCHANGED <<mirrors, objects, observers, args>>

\* The first pass of the while loop in drawLightRay(ctx, img, ..., images)
\* for an image img of order above 1.
TraceStart ==
  /\ op = "images"
  /\ \E i \in 1 .. Len(result.images) :
       /\ result.images[i].order > 1
       /\ result' = [result EXCEPT
                       !.start = i,
                       !.current = i,
                       !.prev = findPrevImage(result.images, result.images[i], 1)]
  /\ op' = "step"
  /\ UNCHANGED <<mirrors, objects, observers, args>>

\* A later pass: currentImage = prevImage, then the find again.
TraceStep ==
  /\ op = "step"
  /\ result.prev # 0
  /\ result.images[result.prev].order > 1
  /\ result' = [result EXCEPT
                  !.current = result.prev,
                  !.prev = findPrevImage(result.images,
                                         result.images[result.prev], 1)]
  /\ UNCHANGED <<mirrors, objects, observers, op, args>>

NextTrace == CallTraceImages \/ TraceStart \/ TraceStep

SpecTrace == InitTrace /\ [][NextTrace]_vars

\* C17: with a group of exactly two mirrors every step of the backward walk
\* selects the image the current image was derived from: the returned image
\* of the order below, made by the other mirror, whose reflection in the
\* current image's source mirror is the current image.
C17_TrueParent ==
  op = "step" =>
    /\ result.prev # 0
    /\ result.images[result.current]
         = ImageIn(result.images[result.prev],
                   result.images[result.current].sourceMirror,
                   result.images[result.current].order)
    /\ result.images[result.prev].order
         = result.images[result.current].order - 1
    /\ result.images[result.prev].sourceMirror.id
         # result.images[result.current].sourceMirror.id

\* The walk from an image of order 3 has reached the image of order 2 and
\* selected its parent of order 1.
C17_Witness ==
  /\ op = "step"
  /\ args[3] = 3
  /\ result.images[result.start].order = 3
  /\ result.images[result.current].order = 2
  /\ result.prev # 0
  /\ result.images[result.prev].order = 1
  /\ Len(result.images) = 6

-----------------------------------------------------------------------------
(* SpecVirtualMirror: calculateVirtualMirror on a source mirror and a      *)
(* reflecting mirror, then on the virtual mirror it returned and a second  *)
(* reflecting mirror.  The rotations are all of one family of VmFamilies,  *)
(* or an oblique source with axis-aligned reflecting mirrors; args holds   *)
(* the source and the reflecting mirror of the call, then the mirror the   *)
(* next call reflects in.                                                  *)

MaxVmCoord == 1

VmRotationTriples ==
  UNION {[1 .. 3 -> fam] : fam \in VmFamilies}
    \cup {<<a, b, c>> : a \in {37, 53}, b \in {0, 90, 180, 270},
                        c \in {0, 90, 180, 270}}

InitVirtualMirror ==
  /\ NoScene
  /\ op = "init"
  /\ \E rot \in VmRotationTriples, x \in 0 .. MaxVmCoord, y \in 0 .. MaxVmCoord,
        h \in {2, 4}, d \in {0, 3} :
       args = <<Mirror(1, IPt(x, y), I(h), rot[1]),
                Mirror(2, IPt(d, 0), I(4), rot[2]),
                Mirror(3, IPt(0, -1), I(4), rot[3])>>
  /\ result = Null

\* calculateVirtualMirror(sourceMirror, reflectingMirror)
CallVirtualMirror ==
  /\ op = "init"
  /\ op' = "calculateVirtualMirror"
  /\ result' = calculateVirtualMirror(args[1], args[2])
  /\ UNCHANGED <<mirrors, objects, observers, args>>

\* calculateVirtualMirror(v, m) on the virtual mirror v just returned
CallVirtualMirrorOfVirtual ==
  /\ op = "calculateVirtualMirror"
  /\ op' = "calculateVirtualMirrorOfVirtual"
  /\ result' = calculateVirtualMirror(result, args[3])
  /\ args' = <<result, args[3], args[3]>>
  /\ UNCHANGED <<mirrors, objects, observers>>

NextVirtualMirror == CallVirtualMirror \/ CallVirtualMirrorOfVirtual

SpecVirtualMirror == InitVirtualMirror /\ [][NextVirtualMirror]_vars

\* q is the mirror image of p in the plane of m: at the opposite signed
\* distance, and the line from p to q is along the normal.
MirrorImageOf(q, p, m) ==
  /\ SignedDist(q, m) = RNeg(SignedDist(p, m))
  /\ RSub(RMul(RSub(q.x, p.x), getMirrorNormal(m).y),
          RMul(RSub(q.y, p.y), getMirrorNormal(m).x)) = Zero

\* C18: calculateVirtualMirror(s, r) returns the mirror image of s: its
\* endpoints are, as an unordered pair, the mirror images in r's plane of the
\* endpoints of s, its center their midpoint, its height and width those of
\* s, and it is tagged isVirtual with sourceMirror = r.
C18_MirrorOfMirror ==
  op \in {"calculateVirtualMirror", "calculateVirtualMirrorOfVirtual"} =>
    LET s == args[1]
        r == args[2]
        e == getMirrorEndpoints(s)
        v == getMirrorEndpoints(result)
    IN  /\ \/ MirrorImageOf(v[1], e[1], r) /\ MirrorImageOf(v[2], e[2], r)
           \/ MirrorImageOf(v[1], e[2], r) /\ MirrorImageOf(v[2], e[1], r)
        /\ result.position = Pt(RDiv(RAdd(v[1].x, v[2].x), Two),
                                RDiv(RAdd(v[1].y, v[2].y), Two))
        /\ result.height = s.height
        /\ result.width = s.width
        /\ result.isVirtual
        /\ result.sourceMirror = r

\* An oblique mirror off the plane of an axis-aligned reflecting mirror: the
\* virtual mirror is elsewhere and turned.
C18_Witness ==
  /\ op = "calculateVirtualMirror"
  /\ args[1].rotation = 53
  /\ args[2].rotation = 90
  /\ result.position # args[1].position
  /\ result.rotation # args[1].rotation
  /\ result.height = I(2)

-----------------------------------------------------------------------------
(* SpecGroupPass: the pass of findParallelMirrorGroups pair by pair.       *)
(* result holds the groups built so far and the number of pairs (i, j),    *)
(* i < j, already looked at; the last step returns the groups.             *)

InitGroupPass ==
  /\ NoScene
  /\ op = "init"
  /\ \E n \in 0 .. MaxGroupMirrors : \E ms \in MirrorLists(n) : args = <<ms>>
  /\ result = Null

\* const groups = []
StartPass ==
  /\ op = "init"
  /\ op' = "pass"
  /\ result' = [groups |-> <<>>, done |-> 0]
  /\ UNCHANGED <<mirrors, objects, observers, args>>

\* The body of the inner for loop for the next pair.
PassPair ==
  /\ op = "pass"
  /\ result.done < Len(Pairs(Len(args[1])))
  /\ result' = [groups |-> GroupPair(
                             result.groups,
                             args[1][Pairs(Len(args[1]))[result.done + 1][1]],
                             args[1][Pairs(Len(args[1]))[result.done + 1][2]]),
                done |-> result.done + 1]
  /\ UNCHANGED <<mirrors, objects, observers, op, args>>

\* return groups
EndPass ==
  /\ op = "pass"
  /\ result.done = Len(Pairs(Len(args[1])))
  /\ op' = "findParallelMirrorGroups"
  /\ result' = result.groups
  /\ UNCHANGED <<mirrors, objects, observers, args>>

NextGroupPass == StartPass \/ PassPair \/ EndPass

SpecGroupPass == InitGroupPass /\ [][NextGroupPass]_vars

\* The groups of gs that contain mirror a or mirror b.
GroupsWith(gs, a, b) ==
  {x \in 1 .. Len(gs) : \E k \in 1 .. Len(gs[x]) : gs[x][k].id \in {a.id, b.id}}

\* Group new is group old with none, one or both of a and b appended.
GrownBy(new, old, a, b) ==
  /\ Len(new) >= Len(old)
  /\ SubSeq(new, 1, Len(old)) = old
  /\ {new[k].id : k \in 1 .. Len(new)}
       = {old[k].id : k \in 1 .. Len(old)} \cup {a.id, b.id}

\* One pair (a, b) takes the groups from gs to hs as C19 says.
PairStep(gs, hs, a, b) ==
  IF ~(RLt(RSub(One, ParallelEpsilon),
           RAbs(dotProduct(getMirrorNormal(a), getMirrorNormal(b)))))
  THEN hs = gs
  ELSE IF GroupsWith(gs, a, b) = {}
  THEN hs = Append(gs, <<a, b>>)
  ELSE /\ Len(hs) = Len(gs)
       /\ \A x \in 1 .. Len(gs) :
            IF x \in GroupsWith(gs, a, b) /\ \A y \in GroupsWith(gs, a, b) : x <= y
            THEN GrownBy(hs[x], gs[x], a, b)
            ELSE hs[x] = gs[x]

\* C19: the pass looks at the pairs (i, j), i < j, in lexicographic order;
\* a parallel pair appends one new group of the two mirrors when no group
\* contains either, and else touches only the earliest-created group that
\* contains either, appending what it lacks of the two; no other group
\* changes, no group is merged or removed and no member is removed, so the
\* number of groups never decreases and groups created apart stay apart.
C19_SinglePass ==
  [][(op = "pass" /\ op' = "pass") =>
       /\ result'.done = result.done + 1
       /\ PairStep(result.groups, result'.groups,
                   args[1][Pairs(Len(args[1]))[result'.done][1]],
                   args[1][Pairs(Len(args[1]))[result'.done][2]])
       /\ Pairs(Len(args[1]))[result'.done][1] < Pairs(Len(args[1]))[result'.done][2]
       /\ result.done > 0 =>
            \/ Pairs(Len(args[1]))[result.done][1] < Pairs(Len(args[1]))[result'.done][1]
            \/ /\ Pairs(Len(args[1]))[result.done][1] = Pairs(Len(args[1]))[result'.done][1]
               /\ Pairs(Len(args[1]))[result.done][2] < Pairs(Len(args[1]))[result'.done][2]
       /\ Len(result'.groups) >= Len(result.groups)]_vars

\* Rotations 0, 6, 2, 4: the pass has made the groups (m1, m3) and (m2, m4)
\* apart, then added m4 to the first for the pair (m3, m4); the two groups
\* are still two.
C19_Witness ==
  /\ op = "pass"
  /\ Len(args[1]) = 4
  /\ result.done = 6
  /\ Len(result.groups) = 2
  /\ Len(result.groups[1]) = 3
  /\ Len(result.groups[2]) = 2
  /\ [k \in 1 .. 3 |-> result.groups[1][k].id] = <<1, 3, 4>>
  /\ [k \in 1 .. 2 |-> result.groups[2][k].id] = <<2, 4>>

-----------------------------------------------------------------------------
(* The scene store (src/src/contexts/OpticsContext.tsx).                   *)

WindowWidth == 1000
WindowHeight == 800

defaultMirror ==
  [position |-> Pt(RMul(I(WindowWidth), Rat(38, 100)), RDiv(I(WindowHeight), Two)),
   width |-> I(6), height |-> I(400), rotation |-> 180]

\* The updater of addMirror appending a default mirror whatever prev.length.
addMirrorUpdaterAppend(prev) == Append(prev, defaultMirror)

\* The updater function addMirror hands to setMirrors.
addMirrorUpdater(prev) ==
  CASE Len(prev) = 2 ->
         Append(prev, [defaultMirror EXCEPT
                         !.rotation = 90,
                         !.position = Pt(RDiv(I(WindowWidth), Two),
                                         RDiv(I(WindowHeight), I(4)))])
    [] Len(prev) = 1 ->
         Append(prev, [defaultMirror EXCEPT
                         !.position.x = RMul(I(WindowWidth), Rat(62, 100))])
    [] OTHER -> <<defaultMirror>>

\* One setMirrors call waiting for the next render: an updater function
\* (addMirror) or a value (updateMirror, removeMirror).
UpdaterCall == [fn |-> TRUE, value |-> <<>>]
ValueCall(value) == [fn |-> FALSE, value |-> value]

\* React applies the queued setMirrors calls in order at the next render.
RECURSIVE applyUpdates(_, _)
applyUpdates(state, queue) ==
  IF queue = <<>> THEN state
  ELSE applyUpdates(IF Head(queue).fn THEN addMirrorUpdater(state)
                    ELSE Head(queue).value,
                    Tail(queue))

\* updatedMirrors of updateMirror(index, props), index counted from 0.
updatedMirrors(ms, index, props) ==
  [ms EXCEPT ![index + 1] = [@ EXCEPT !.position = props.position]]

\* mirrors.filter((_, i) => i !== index), index counted from 0.
withoutIndex(ms, index) ==
  [k \in 1 .. (Len(ms) - 1) |-> IF k <= index THEN ms[k] ELSE ms[k + 1]]

-----------------------------------------------------------------------------
(* SpecScene: the callbacks of the scene store and the renders between     *)
(* them.  mirrors is the state of the last render, the one the closures of *)
(* updateMirror and removeMirror read; args is the queue of setMirrors     *)
(* calls made since (at most MaxPending), op the last callback.            *)

MaxPending == 2

DragPoints == {IPt(100, 100)}

InitScene ==
  /\ mirrors = <<defaultMirror>>
  /\ objects = <<Object(Pt(RDiv(I(WindowWidth), Two),
                           RMul(I(WindowHeight), Rat(45, 100))), 0)>>
  /\ observers = <<Observer(Pt(RDiv(I(WindowWidth), Two),
                               RMul(I(WindowHeight), Rat(8, 10))))>>
  /\ op = "init"
  /\ args = <<>>
  /\ result = Null

addMirror ==
  /\ Len(args) < MaxPending
  /\ op' = "addMirror"
  /\ args' = Append(args, UpdaterCall)
  /\ UNCHANGED <<mirrors, objects, observers, result>>

updateMirror ==
  /\ Len(args) < MaxPending
  /\ \E index \in -1 .. Len(mirrors), p \in DragPoints :
       /\ op' = "updateMirror"
       /\ IF index < 0 \/ index >= Len(mirrors) THEN args' = args
          ELSE args' = Append(args, ValueCall(
                         updatedMirrors(mirrors, index, [position |-> p])))
  /\ UNCHANGED <<mirrors, objects, observers, result>>

removeMirror ==
  /\ Len(args) < MaxPending
  /\ \E index \in -1 .. Len(mirrors) :
       /\ op' = "removeMirror"
       /\ IF index < 0 \/ index >= Len(mirrors) THEN args' = args
          ELSE args' = Append(args, ValueCall(withoutIndex(mirrors, index)))
  /\ UNCHANGED <<mirrors, objects, observers, result>>

\* The re-render: useState returns the state with the queue applied.
Render ==
  /\ args # <<>>
  /\ op' = "render"
  /\ mirrors' = applyUpdates(mirrors, args)
  /\ args' = <<>>
  /\ UNCHANGED <<objects, observers, result>>

NextScene == addMirror \/ updateMirror \/ removeMirror \/ Render

SpecScene == InitScene /\ [][NextScene]_vars

\* C20: from the initial scene of one mirror, after any sequence of
\* addMirror, removeMirror and updateMirror calls the number of mirrors is
\* between 0 and 3, at every render and with any part of the pending calls
\* applied; addMirror on a scene of 3 mirrors gives no fourth.
C20_AtMostThree ==
  /\ Len(mirrors) \in 0 .. 3
  /\ \A k \in 0 .. Len(args) :
       Len(applyUpdates(mirrors, SubSeq(args, 1, k))) \in 0 .. 3

\* addMirror has been called on a rendered scene of 3 mirrors: the next
\* render has one mirror, the default one.
C20_Witness ==
  /\ op = "addMirror"
  /\ Len(mirrors) = 3
  /\ args = <<UpdaterCall>>
  /\ applyUpdates(mirrors, args) = <<defaultMirror>>

-----------------------------------------------------------------------------
(* SpecDraw: drawVirtualImages on scenes of at most MaxDrawMirrors mirrors *)
(* (two facing each other and one across), one object and at most          *)
(* MaxDrawObservers observers.                                             *)

MaxDrawMirrors == 2
MaxDrawObservers == 2

DrawPlacements == {<<IPt(0, 0), 0>>, <<IPt(4, 0), 180>>, <<IPt(2, 3), 90>>}

DrawMirrorLists ==
  UNION {{[k \in 1 .. n |-> Mirror(k, pl[k][1], I(4), pl[k][2])] :
            pl \in [1 .. n -> DrawPlacements]} : n \in 0 .. MaxDrawMirrors}

DrawObjectLists == {<<Object(IPt(1, 0), 0)>>, <<Object(IPt(2, 1), 0)>>}

DrawObserverPoints == {IPt(3, 1), IPt(1, 6), IPt(6, 1), IPt(2, -1)}

DrawObserverLists ==
  UNION {{[k \in 1 .. n |-> Observer(ps[k])] :
            ps \in [1 .. n -> DrawObserverPoints]} : n \in 0 .. MaxDrawObservers}

InitDraw ==
  /\ mirrors \in DrawMirrorLists
  /\ objects \in DrawObjectLists
  /\ observers \in DrawObserverLists
  /\ op = "init"
  /\ args = <<>>
  /\ result = Null

\* drawVirtualImages(ctx, objects, mirrors, observers)
CallDrawVirtualImages ==
  /\ op = "init"
  /\ op' = "drawVirtualImages"
  /\ result' = drawVirtualImages(objects, mirrors, observers)
  /\ UNCHANGED <<mirrors, objects, observers, args>>

NextDraw == CallDrawVirtualImages

SpecDraw == InitDraw /\ [][NextDraw]_vars

\* The ray of entry e with index r has the path of a single bounce for
\* observer o: object to the bounce point on the rays' mirror, and bounce
\* point to the observer.
BouncePath(e, r, o) ==
  /\ Len(e.rays[r].ray.paths) = 3
  /\ e.rays[r].ray.paths[1].end = o.position
  /\ e.rays[r].ray.paths[3].start = e.object.position
  /\ e.rays[r].ray.paths[3].end = e.rays[r].ray.paths[1].start
  /\ lineIntersection(e.image.position, o.position,
                      getMirrorEndpoints(e.image.sourceMirror)[1],
                      getMirrorEndpoints(e.image.sourceMirror)[2])
       = e.rays[r].ray.paths[1].start

\* C21: whenever isImageVisible reports a first-order image visible because
\* of observer O, the segment from O to the image crosses the finite segment
\* of the image's source mirror, so drawLightRay emits the path object ->
\* bounce point -> O for that observer.
C21_VisibleHasBounce ==
  op = "drawVirtualImages" =>
    \A x \in 1 .. Len(result) :
      result[x].image.order = 1 =>
        \A r \in 1 .. Len(result[x].rays) :
          observerSees(observers[result[x].rays[r].observer],
                       result[x].image.position, result[x].image.sourceMirror,
                       otherMirrors(mirrors, result[x].image.sourceMirror))
            => BouncePath(result[x], r, observers[result[x].rays[r].observer])

\* C22: with several observers a light path is emitted for a pair (image,
\* observer) only if that observer itself sees the image: it is strictly on
\* the other side of the plane of the source mirror and its sight line to
\* the image is unobstructed by every other mirror.
C22_OnlySeeingObservers ==
  op = "drawVirtualImages" =>
    \A x \in 1 .. Len(result) :
      \A r \in 1 .. Len(result[x].rays) :
        result[x].rays[r].ray.paths # <<>> =>
          observerSees(observers[result[x].rays[r].observer],
                       result[x].image.position, result[x].image.sourceMirror,
                       otherMirrors(mirrors, result[x].image.sourceMirror))

\* List after is list before with at most one mirror changed.
OneMirrorChanged(before, after) ==
  /\ Len(after) = Len(before)
  /\ \E j \in 0 .. Len(before) :
       \A i \in 1 .. Len(before) : i # j => after[i] = before[i]

\* C23: no scene update is lost.  When updateMirror is called while other
\* callbacks (updateMirror of another mirror, addMirror, removeMirror) made
\* against the same rendered snapshot wait for the re-render, the state of
\* the next render reflects them all: it is the state those callbacks lead
\* to with the one mirror updated.
C23_NoLostUpdate ==
  [][(op' = "updateMirror" /\ args # <<>> /\ args' # args) =>
       OneMirrorChanged(applyUpdates(mirrors, args),
                        applyUpdates(mirrors, args'))]_vars

====
